---- MODULE Spec2Model ----
(***************************************************************************)
(* Verification model of the aurora_iqvia package: the payload builder     *)
(* (controller.build_payload and its formatters), the structural validator *)
(* (validator.validate_payload) and the period orchestrator                *)
(* (controller.run_period).                                                *)
(*                                                                         *)
(* Conventions                                                             *)
(*  - a text value is a sequence of one-character strings;                 *)
(*  - a monetary value is an integer number of thousandths (1990 cents =   *)
(*    19900), so that round(x, 2) is a real conversion;                    *)
(*  - a quantity is an integer number of units;                            *)
(*  - a date is the day number inside the month BaseMonth of BaseYear;     *)
(*  - a source row is a record whose fields are the columns that hold a    *)
(*    value; a column that is absent or NULL is a field that is missing    *)
(*    from the record (getattr(r, c, default) or default).                 *)
(***************************************************************************)
EXTENDS Integers, Sequences, FiniteSets, TLC

VARIABLES
    mode,       \* which entry point this behaviour exercises
    pc,         \* position inside the entry point
    inp,        \* arguments of the call under way
    out,        \* its result (or the exception it raised)
    day,        \* run_period: loop variable `dia`
    rows,       \* run_period: row-sets fetched for `dia`
    json_paths, \* run_period: list of the JSON files saved so far
    fs,         \* run_period: the files of out_dir (name -> content)
    log,        \* run_period: messages handed to the logger callback
    calls,      \* run_period: calls made to the collaborators, in order
    history,    \* run_period: the upload history store
    loc         \* run_period: the locals payload, zip_path, tok and resp

vars == <<mode, pc, inp, out, day, rows, json_paths, fs, log, calls, history, loc>>

-----------------------------------------------------------------------------
(* Bounds *)

MaxRows == 2        \* rows of the row-set under study in one build_payload call
MaxDay == 3         \* last day number a run may be asked for
MaxLen == 4         \* characters of a text given to validate_field_length
MaxDigits == 15     \* digits of a text given to a formatter
MaxWrites == 3      \* uploads and status checks recorded in one history store

-----------------------------------------------------------------------------
(* Python helpers *)

Digits == <<"0", "1", "2", "3", "4", "5", "6", "7", "8", "9">>

IsDigit(c) == \E i \in 1..10 : Digits[i] = c

\* str(n) for an integer n
RECURSIVE StrNat(_)
StrNat(n) == IF n < 10 THEN <<Digits[n + 1]>>
             ELSE StrNat(n \div 10) \o <<Digits[(n % 10) + 1]>>

Str(n) == IF n < 0 THEN <<"-">> \o StrNat(0 - n) ELSE StrNat(n)

\* s[:n]
Take(s, n) == SubSeq(s, 1, IF Len(s) < n THEN Len(s) ELSE n)

\* getattr(r, c, default) or default
Get(r, c, default) == IF c \in DOMAIN r THEN r[c] ELSE default

\* round(x, 2) on thousandths; the inputs never end in 5, where the result
\* depends on the binary representation of the float
Round2(m) == LET r == m % 10 IN IF r < 5 THEN m - r ELSE m - r + 10

\* str.zfill(width)
RECURSIVE zfill(_, _)
zfill(s, width) == IF Len(s) >= width THEN s ELSE zfill(<<"0">> \o s, width)

\* d.strftime("%Y-%m-%d") and d.strftime("%Y%m%d") for the day d of BaseYear/BaseMonth
BaseYear == <<"2", "0", "2", "4">>
BaseMonth == <<"0", "1">>
FmtYmd(d) == BaseYear \o <<"-">> \o BaseMonth \o <<"-">> \o zfill(StrNat(d), 2)
FmtCompact(d) == BaseYear \o BaseMonth \o zfill(StrNat(d), 2)

-----------------------------------------------------------------------------
(* utils.only_digits and the formatters of controller.py.  A non-ASCII      *)
(* character is written as the token "x" + its Latin-1 byte in hex, or      *)
(* "u" + its code point.                                                    *)

None == <<"<None>">>      \* the value None where a text is expected

\* s is empty or None: `if not s`
Falsy(s) == s = <<>> \/ s = None

\* "".join(ch for ch in str(s) if ch.isdigit())
RECURSIVE DigitsOf(_)
DigitsOf(s) == IF s = <<>> THEN <<>>
               ELSE IF IsDigit(Head(s)) THEN <<Head(s)>> \o DigitsOf(Tail(s))
               ELSE DigitsOf(Tail(s))

only_digits(s) == IF Falsy(s) THEN <<>> ELSE DigitsOf(s)

\* format_cep without the zfill
format_cep_NoPad(cep) == IF Falsy(cep) THEN <<>> ELSE Take(only_digits(cep), 8)

format_cep(cep) == IF Falsy(cep) THEN <<>> ELSE Take(zfill(only_digits(cep), 8), 8)

format_cnpj(cnpj) == IF Falsy(cnpj) THEN <<>> ELSE Take(zfill(only_digits(cnpj), 14), 14)

format_cpf(cpf) == IF Falsy(cpf) THEN <<>> ELSE Take(zfill(only_digits(cpf), 11), 11)

format_telefone(phone) == IF Falsy(phone) THEN <<>> ELSE Take(only_digits(phone), 11)

\* characters that do not fit in Latin-1 (ord(c) > 255); all of them are > 1000
\* except U+0192
NotLatin1 == {"uFFFD", "u0192", "u38E3"}
Above1000 == {"uFFFD", "u38E3"}

\* UTF-8 continuation bytes, and the character that the lead byte C3
\* followed by each of them decodes to
ContOfC3 == [x83 |-> "xC3", xA0 |-> "xE0", xA1 |-> "xE1", xA2 |-> "xE2", xA3 |-> "xE3",
             xA4 |-> "xE4", xA7 |-> "xE7", xA9 |-> "xE9", xAA |-> "xEA",
             xAD |-> "xED", xB3 |-> "xF3", xB4 |-> "xF4", xB5 |-> "xF5",
             xBA |-> "xFA", xBC |-> "xFC"]
IsCont(c) == c \in DOMAIN ContOfC3
\* Latin-1 bytes above 0x7F: none of them is a character on its own in UTF-8
HighBytes == (DOMAIN ContOfC3) \cup {"xC3", "xC0", "xE0", "xE1", "xE2", "xE3", "xE4", "xE7",
                                     "xE9", "xEA", "xED", "xF3", "xF4", "xF5", "xFA", "xFC"}
IsHighByte(c) == c \in HighBytes

\* bytes.decode('utf-8', errors='ignore') of the Latin-1 bytes of s
RECURSIVE Utf8Ignore(_)
Utf8Ignore(s) ==
    IF s = <<>> THEN <<>>
    ELSE LET c == Head(s) IN
         IF ~IsHighByte(c) THEN <<c>> \o Utf8Ignore(Tail(s))
         ELSE IF c = "xC3" /\ Len(s) >= 2 /\ IsCont(s[2])
              THEN <<ContOfC3[s[2]]>> \o Utf8Ignore(Tail(Tail(s)))
         ELSE IF c = "xE3" /\ Len(s) >= 3 /\ s[2] = "xA3" /\ s[3] = "xA3"
              THEN <<"u38E3">> \o Utf8Ignore(Tail(Tail(Tail(s))))
         ELSE Utf8Ignore(Tail(s))

\* text.encode('latin1', errors='ignore').decode('utf-8', errors='ignore')
Redecode(s) == Utf8Ignore(SelectSeq(s, LAMBDA c : c \notin NotLatin1))

\* str.replace(k, v)
RECURSIVE Replace(_, _, _)
Replace(s, k, v) ==
    IF Len(s) < Len(k) THEN s
    ELSE IF SubSeq(s, 1, Len(k)) = k
         THEN v \o Replace(SubSeq(s, Len(k) + 1, Len(s)), k, v)
         ELSE <<Head(s)>> \o Replace(Tail(s), k, v)

\* the table `replacements` of clean_text, in insertion order
replacements == <<
    <<<<"S", "xC3", "xA3", "O">>, <<"S", "xC3", "O">>>>,
    <<<<"S", "xC3", "u0192", "O">>, <<"S", "xC3", "O">>>>,
    <<<<"S", "xC3", "x83", "O">>, <<"S", "xC3", "O">>>>,
    <<<<"xC3", " ">>, <<"xC0">>>>,
    <<<<"xC3", "xA1">>, <<"xE1">>>>, <<<<"xC3", "xA2">>, <<"xE2">>>>,
    <<<<"xC3", "xA3">>, <<"xE3">>>>, <<<<"xC3", "xA4">>, <<"xE4">>>>,
    <<<<"xC3", "xA7">>, <<"xE7">>>>, <<<<"xC3", "xA9">>, <<"xE9">>>>,
    <<<<"xC3", "xAA">>, <<"xEA">>>>, <<<<"xC3", "xAD">>, <<"xED">>>>,
    <<<<"xC3", "xB3">>, <<"xF3">>>>, <<<<"xC3", "xB4">>, <<"xF4">>>>,
    <<<<"xC3", "xB5">>, <<"xF5">>>>, <<<<"xC3", "xBA">>, <<"xFA">>>>,
    <<<<"xC3", "xBC">>, <<"xFC">>>> >>

RECURSIVE ApplyReplacements(_, _)
ApplyReplacements(s, i) ==
    IF i > Len(replacements) THEN s
    ELSE ApplyReplacements(Replace(s, replacements[i][1], replacements[i][2]), i + 1)

IsSpace(c) == c \in {" ", "\t", "\n"}

\* " ".join(text.split())
RECURSIVE JoinSplit(_, _)
JoinSplit(s, pending) ==
    IF s = <<>> THEN <<>>
    ELSE IF IsSpace(Head(s)) THEN JoinSplit(Tail(s), TRUE)
    ELSE (IF pending THEN <<" ">> ELSE <<>>) \o <<Head(s)>> \o JoinSplit(Tail(s), FALSE)

RECURSIVE SkipSpaces(_)
SkipSpaces(s) == IF s # <<>> /\ IsSpace(Head(s)) THEN SkipSpaces(Tail(s)) ELSE s

clean_text(text) ==
    IF Falsy(text) THEN <<>>
    ELSE LET t1 == IF \E i \in 1..Len(text) : text[i] \in Above1000
                   THEN Redecode(text) ELSE text
         IN JoinSplit(SkipSpaces(ApplyReplacements(t1, 1)), FALSE)

\* validate_field_length that cuts the raw value before it is cleaned
validate_field_length_CutFirst(value, max_length) ==
    IF value = None THEN <<>>
    ELSE clean_text(IF Len(value) > max_length THEN Take(value, max_length) ELSE value)

\* validate_field_length(value, max_length); value is already str(value)
validate_field_length(value, max_length) ==
    IF value = None THEN <<>>
    ELSE LET s == clean_text(value)
         IN IF Len(s) > max_length THEN Take(s, max_length) ELSE s

-----------------------------------------------------------------------------
(* controller.build_payload *)

\* [f(s[1]), ..., f(s[n])]
Map(s, f(_)) == [i \in 1..Len(s) |-> f(s[i])]

\* int(s) for a text s: the digits as a number; anything else is a ValueError
IsIntText(s) == s # <<>> /\ \A i \in 1..Len(s) : IsDigit(s[i])

DigitVal(c) == CHOOSE i \in 0..9 : Digits[i + 1] = c

RECURSIVE ParseNat(_)
ParseNat(s) == IF s = <<>> THEN 0
               ELSE 10 * ParseNat(SubSeq(s, 1, Len(s) - 1)) + DigitVal(s[Len(s)])

\* r.DTSAIDA.strftime("%Y-%m-%d") if ... else str(getattr(r, "DTSAIDA", ""))[:10]
SaidaDt(r) == IF "DTSAIDA" \in DOMAIN r THEN FmtYmd(r.DTSAIDA) ELSE <<>>

\* -------- Estabelecimentos --------
Estab(r, codiqvia) ==
    [cod |-> validate_field_length(r.CODFILIAL, 14),
     doc |-> format_cnpj(Get(r, "CGC", <<>>)),
     nome |-> validate_field_length(Get(r, "RAZAOSOCIAL", <<>>), 40),
     nomeOfc |-> validate_field_length(Get(r, "FANTASIA_FILIAL", <<>>), 40),
     tipo |-> <<"C", "D">>,
     tipoCaptacaoPrescricao |-> 0,
     ender |-> [descr |-> validate_field_length(Get(r, "ENDERECOFILIAL", <<>>), 70),
                compl |-> <<>>,
                cep |-> format_cep(Get(r, "CEP", <<>>)),
                cidade |-> IF "CIDADE" \in DOMAIN r
                           THEN validate_field_length(r.CIDADE, 40)
                           ELSE validate_field_length(Get(r, "MUNICIPIO", <<>>), 40),
                uf |-> validate_field_length(Get(r, "UF", <<>>), 2),
                tel |-> format_telefone(Get(r, "TELEFONE", <<>>))],
     codIqvia |-> validate_field_length(codiqvia, 10)]

\* a customer whose tipo follows the format chosen for doc
Cliente_TipoByFormat(r) ==
    LET doc_raw == Get(r, "CGCENT", <<>>)
        digits == only_digits(doc_raw)
    IN [cod |-> validate_field_length(Str(Get(r, "CODCLI", 0)), 14),
        doc |-> IF Len(digits) >= 12 THEN format_cnpj(doc_raw) ELSE format_cpf(doc_raw),
        nome |-> validate_field_length(Get(r, "CLIENTE", <<>>), 40),
        nomeOfc |-> validate_field_length(Get(r, "FANTASIA_CLIENT", <<>>), 40),
        tipo |-> IF Len(digits) >= 12 THEN 2 ELSE 1,
        profSaude |-> 0,
        ender |-> [descr |-> validate_field_length(Get(r, "ENDERECOCLI", <<>>), 70),
                   compl |-> <<>>,
                   cep |-> format_cep(Get(r, "CEPENT", <<>>)),
                   cidade |-> validate_field_length(Get(r, "MUNICENT", <<>>), 40),
                   uf |-> validate_field_length(Get(r, "ESTENT", <<>>), 2),
                   tel |-> format_telefone(Get(r, "TELENT", <<>>))]]

\* -------- Clientes --------
Cliente(r) ==
    LET doc_raw == Get(r, "CGCENT", <<>>)
        digits == only_digits(doc_raw)
    IN [cod |-> validate_field_length(Str(Get(r, "CODCLI", 0)), 14),
        doc |-> IF Len(digits) >= 12 THEN format_cnpj(doc_raw) ELSE format_cpf(doc_raw),
        nome |-> validate_field_length(Get(r, "CLIENTE", <<>>), 40),
        nomeOfc |-> validate_field_length(Get(r, "FANTASIA_CLIENT", <<>>), 40),
        tipo |-> IF Len(digits) = 14 THEN 2 ELSE 1,
        profSaude |-> 0,
        ender |-> [descr |-> validate_field_length(Get(r, "ENDERECOCLI", <<>>), 70),
                   compl |-> <<>>,
                   cep |-> format_cep(Get(r, "CEPENT", <<>>)),
                   cidade |-> validate_field_length(Get(r, "MUNICENT", <<>>), 40),
                   uf |-> validate_field_length(Get(r, "ESTENT", <<>>), 2),
                   tel |-> format_telefone(Get(r, "TELENT", <<>>))]]

\* -------- Produtos --------
\* ean_final when the lookup in dados_entrada is skipped
ProdEan_NoLookup(r, dados_entrada) == Get(r, "CODAUXILIAR", <<>>)

\* ean_final after the lookup in dados_entrada
ProdEan(r, dados_entrada) ==
    LET ean == Get(r, "CODAUXILIAR", <<>>)
    IN IF r.CODPROD \in DOMAIN dados_entrada /\ ean = <<>>
          /\ dados_entrada[r.CODPROD].ean # <<>>
       THEN dados_entrada[r.CODPROD].ean
       ELSE ean

\* preco_final after the lookup in dados_entrada
ProdPreco(r, dados_entrada) ==
    LET preco == Round2(Get(r, "PTABELA", 0))
    IN IF r.CODPROD \in DOMAIN dados_entrada /\ preco = 0
          /\ dados_entrada[r.CODPROD].preco # 0
       THEN dados_entrada[r.CODPROD].preco
       ELSE preco

\* a product whose price is emitted as the lookup gave it
Produto_RawPrice(r, dados_entrada) ==
    [cod |-> validate_field_length(Str(r.CODPROD), 13),
     eanSellIn |-> validate_field_length(ProdEan(r, dados_entrada), 14),
     eanSellOut |-> validate_field_length(ProdEan(r, dados_entrada), 14),
     ncm |-> validate_field_length(Get(r, "NBM", <<>>), 8),
     apresent |-> validate_field_length(Get(r, "DESCRICAO", <<>>), 70),
     fabr |-> validate_field_length(Get(r, "FORNECEDOR", <<>>), 40),
     precoFabrica |-> ProdPreco(r, dados_entrada),
     dispViaFarmaciaPopular |-> <<"0">>,
     dispViaPbm |-> <<"0">>,
     marcaPropria |-> <<"0">>]

Produto(r, dados_entrada) ==
    [cod |-> validate_field_length(Str(r.CODPROD), 13),
     eanSellIn |-> validate_field_length(ProdEan(r, dados_entrada), 14),
     eanSellOut |-> validate_field_length(ProdEan(r, dados_entrada), 14),
     ncm |-> validate_field_length(Get(r, "NBM", <<>>), 8),
     apresent |-> validate_field_length(Get(r, "DESCRICAO", <<>>), 70),
     fabr |-> validate_field_length(Get(r, "FORNECEDOR", <<>>), 40),
     precoFabrica |-> Round2(ProdPreco(r, dados_entrada)),
     dispViaFarmaciaPopular |-> <<"0">>,
     dispViaPbm |-> <<"0">>,
     marcaPropria |-> <<"0">>]

Produtos(produtos_unicos, dados_entrada) ==
    Map(SelectSeq(produtos_unicos, LAMBDA r : ProdEan(r, dados_entrada) # <<>>),
        LAMBDA r : Produto(r, dados_entrada))

\* -------- Vendas --------
\* vl_unit
VlUnit(r) == Round2(Get(r, "PUNIT", 0))

\* eh_brinde when the BRINDE marker is ignored
EhBrinde_PriceOnly(r) == VlUnit(r) = 0

\* eh_brinde
EhBrinde(r) == VlUnit(r) = 0 \/ Get(r, "BRINDE", <<"N">>) = <<"S">>

\* preco_para_json
PrecoParaJson(r) == IF EhBrinde(r) /\ VlUnit(r) = 0
                    THEN Round2(Get(r, "PTABELA", 0))
                    ELSE VlUnit(r)

\* int(getattr(r, "SERIE", 0) or 0) raises ValueError
SerieRaises(r) == "SERIE" \in DOMAIN r /\ r.SERIE # <<>> /\ ~IsIntText(r.SERIE)

PrecoBase(r) ==
    [valor |-> [liquido |-> PrecoParaJson(r), bruto |-> PrecoParaJson(r)],
     icms |-> [isento |-> 0,
               aliq |-> Round2(Get(r, "PERCICM", 0)),
               valor |-> Round2(Get(r, "VLICMS", 0)),
               cst |-> Get(r, "SITTRIBUT", <<"6", "0">>),
               subsTrib |-> [valor |-> 0, embutidoPreco |-> 0, cest |-> <<"0">>]]]

Desconto(r) == [paraConsumidorFinal |-> 12, perc |-> 100000, valor |-> PrecoParaJson(r)]

\* a column value that is a number where a text is usual: the mark "#"
\* followed by the digits of the number
Num(n) == <<"#">> \o StrNat(n)
IsNumber(v) == v # <<>> /\ v[1] = "#"
NumOf(v) == ParseNat(Tail(v))

\* doc_tipo when only None and "" count as no key
DocTipo_TextOnly(r) ==
    LET v == Get(r, "CHAVENFE", None)
    IN IF IsNumber(v) THEN 2 ELSE IF v \in {None, <<>>} THEN 0 ELSE 2

\* doc_tipo = 2 if getattr(r, "CHAVENFE", None) not in (None, "", 0) else 0
DocTipo(r) ==
    LET v == Get(r, "CHAVENFE", None)
    IN IF IsNumber(v) THEN (IF NumOf(v) = 0 THEN 0 ELSE 2)
       ELSE IF v \in {None, <<>>} THEN 0 ELSE 2

\* danfe = str(getattr(r, "CHAVENFE", "") or "")
Danfe(r) ==
    LET v == Get(r, "CHAVENFE", <<>>)
    IN IF IsNumber(v) THEN (IF NumOf(v) = 0 THEN <<>> ELSE Str(NumOf(v))) ELSE v

Venda(r) ==
    [codEstab |-> validate_field_length(r.CODFILIAL, 14),
     codCliente |-> validate_field_length(Str(r.CODCLI), 14),
     comPrescricao |-> 0,
     paraUsoProfSaude |-> 0,
     codProfSaude |-> <<"0">>,
     codProd |-> validate_field_length(Str(r.CODPROD), 13),
     dt |-> SaidaDt(r),
     qt |-> Get(r, "QT", 0),
     ecommerce |-> 0,
     meio |-> 5,
     docTipo |-> DocTipo(r),
     docFiscalSerie |-> Str(ParseNat(Get(r, "SERIE", <<>>))),
     docFiscalNum |-> Get(r, "NUMNOTA", 0),
     danfe |-> Danfe(r),
     vendaJudic |-> 0,
     tipoPagto |-> 0,
     preco |-> IF EhBrinde(r)
               THEN [valor |-> PrecoBase(r).valor, icms |-> PrecoBase(r).icms,
                     desconto |-> Desconto(r)]
               ELSE PrecoBase(r)]

\* -------- Devolucoes/Cancelamentos --------
Devolucao(r) ==
    [codEstab |-> validate_field_length(r.CODFILIAL, 14),
     codCliente |-> validate_field_length(Str(r.CODCLI), 14),
     codProfSaude |-> <<"0">>,
     codProd |-> validate_field_length(Str(r.CODPROD), 13),
     comPrescricao |-> 0,
     ecommerce |-> 0,
     dt |-> SaidaDt(r),
     qt |-> Get(r, "QT", 0)]

\* -------- Estoque --------
EstEan(r, dados_entrada) ==
    LET ean == Get(r, "CODAUXILIAR", <<>>)
    IN IF ean = <<>> /\ r.CODPROD \in DOMAIN dados_entrada
          /\ dados_entrada[r.CODPROD].ean # <<>>
       THEN dados_entrada[r.CODPROD].ean
       ELSE ean

\* the inventory record dated by the row instead of the reference date
Estoque_RowDate(r, data_arquivo) ==
    [codEstab |-> validate_field_length(r.CODFILIAL, 14),
     codProd |-> validate_field_length(Str(r.CODPROD), 13),
     dt |-> FmtYmd(Get(r, "DTULTENT", data_arquivo)),
     qt |-> Get(r, "ESTOQUEATUAL", 0)]

Estoque(r, data_arquivo) ==
    [codEstab |-> validate_field_length(r.CODFILIAL, 14),
     codProd |-> validate_field_length(Str(r.CODPROD), 13),
     dt |-> FmtYmd(data_arquivo),
     qt |-> Get(r, "ESTOQUEATUAL", 0)]

Estoques(est, dados_entrada, data_arquivo) ==
    Map(SelectSeq(est, LAMBDA r : EstEan(r, dados_entrada) # <<>>),
        LAMBDA r : Estoque(r, data_arquivo))

\* the sale records when the sales of a product that has no record in
\* 'produtos' are left out
Vendas_ListedProductsOnly(a) ==
    Map(SelectSeq(a.mov, LAMBDA r :
            \E i \in 1..Len(a.produtos_unicos) :
                /\ a.produtos_unicos[i].CODPROD = r.CODPROD
                /\ ProdEan(a.produtos_unicos[i], a.dados_entrada) # <<>>),
        Venda)

\* the loop over mov.itertuples(): one record appended per row
Vendas(a) == Map(a.mov, Venda)

\* the envelope with the entity lists only
Envelope_NoPlaceholders(a) ==
    [data |-> FmtYmd(a.data_arquivo),
     estabelecimentos |-> Map(a.fil, LAMBDA r : Estab(r, a.codiqvia)),
     clientes |-> Map(a.cli, Cliente),
     produtos |-> Produtos(a.produtos_unicos, a.dados_entrada),
     vendas |-> Vendas(a),
     vendasDevolucoesCancelamentos |-> Map(a.dev, Devolucao),
     estoque |-> Estoques(a.est, a.dados_entrada, a.data_arquivo)]

\* the envelope
Envelope(a) ==
    [data |-> FmtYmd(a.data_arquivo),
     estabelecimentos |-> Map(a.fil, LAMBDA r : Estab(r, a.codiqvia)),
     clientes |-> Map(a.cli, Cliente),
     produtos |-> Produtos(a.produtos_unicos, a.dados_entrada),
     vendas |-> Vendas(a),
     vendasDevolucoesCancelamentos |-> Map(a.dev, Devolucao),
     estoque |-> Estoques(a.est, a.dados_entrada, a.data_arquivo),
     profissionaisSaude |-> <<>>,
     pacientes |-> <<>>,
     fornecedores |-> <<>>,
     planosSaude |-> <<>>,
     laboratoriosPBM |-> <<>>,
     compras |-> <<>>,
     comprasDevolucoesCancelamentos |-> <<>>,
     prescricoes |-> <<>>]

\* build_payload(mov, dev, fil, cli, est, produtos_unicos, dados_entrada,
\*               data_arquivo, client_id, codiqvia, logger): the envelope, or
\* the exception a row raised
build_payload(a) ==
    IF \E i \in 1..Len(a.mov) : SerieRaises(a.mov[i])
    THEN [raised |-> TRUE, exc |-> "ValueError"]
    ELSE [raised |-> FALSE, payload |-> Envelope(a)]

-----------------------------------------------------------------------------
(* Inputs of build_payload *)

\* the values a column takes, plus the column being absent or NULL
Opt(c, values) == {<<>>} \cup {c :> v : v \in values}

Ean13 == <<"7", "8", "9", "1", "2", "3", "4", "5", "6", "7", "8", "9", "0">>
EanShort == <<"7", "8", "9">>
Filial == <<"1">>

\* rows of SQL_PRODUTOS_UNICOS
ProdRows ==
    {[CODPROD |-> p] @@ ean @@ preco :
        p \in {1, 2}, ean \in Opt("CODAUXILIAR", {EanShort}),
        preco \in Opt("PTABELA", {25904})}

\* dados_entrada as run_period builds it from SQL_ENTRADA_PRODUTOS
DadosEntrada ==
    {<<>>,
     1 :> [ean |-> Ean13, preco |-> 5004],
     1 :> [ean |-> <<>>, preco |-> 0],
     (1 :> [ean |-> <<>>, preco |-> 5004]) @@ (2 :> [ean |-> Ean13, preco |-> 0])}

\* rows of SQL_ESTOQUE; DTULTENT is a date of the row that build_payload
\* does not read
EstRows ==
    {[CODFILIAL |-> Filial, CODPROD |-> p] @@ ean @@ qt @@ dt :
        p \in {1, 2}, ean \in Opt("CODAUXILIAR", {EanShort}),
        qt \in Opt("ESTOQUEATUAL", {7}), dt \in {[DTULTENT |-> 1]}}

\* rows of SQL_MOV: the columns that decide the price block
MovPriceRows ==
    {[CODFILIAL |-> Filial, CODCLI |-> 10, CODPROD |-> 1, QT |-> 3, DTSAIDA |-> 1]
        @@ punit @@ ptab @@ brinde :
        punit \in Opt("PUNIT", {0, 4, 12340}),
        ptab \in Opt("PTABELA", {0, 19900, 19904}),
        brinde \in Opt("BRINDE", {<<"S">>})}

\* rows of SQL_MOV: the columns that decide the fiscal document fields
MovDocRows ==
    {[CODFILIAL |-> Filial, CODCLI |-> 10, CODPROD |-> 2, PUNIT |-> 12344,
      PERCICM |-> 18000, VLICMS |-> 2226] @@ serie @@ chave @@ num :
        serie \in Opt("SERIE", {<<"0", "1">>, <<"U">>}),
        chave \in Opt("CHAVENFE", {<<"3", "5", "2", "4">>, <<>>, Num(0), Num(35)}),
        num \in Opt("NUMNOTA", {4711})}

\* rows of SQL_DEVOLUCOES
DevRows ==
    {[CODFILIAL |-> Filial, CODCLI |-> 10, CODPROD |-> 1] @@ qt @@ dt :
        qt \in Opt("QT", {-5, 5}), dt \in Opt("DTSAIDA", {2})}

\* rows of SQL_FILIAL
FilRows ==
    {[CODFILIAL |-> Filial, RAZAOSOCIAL |-> <<"A", " ", " ", "B">>] @@ cgc @@ cep @@ cid :
        cgc \in Opt("CGC", {<<"1", "2", ".", "3", "/", "0", "0", "0", "1", "-", "9">>}),
        cep \in Opt("CEP", {<<"1", "2", "3", "4">>, <<"-">>}),
        cid \in Opt("CIDADE", {<<"S", "xC3", "xA3", "O">>})}

Cpf == <<"1", "2", "3", ".", "4", "5", "6", ".", "7", "8", "9", "-", "0", "0">>
Cnpj == <<"1", "2", ".", "3", "4", "5", ".", "6", "7", "8", "/", "0", "0", "0", "1", "-", "9", "9">>
Doc12 == <<"1", "2", "3", "4", "5", "6", "7", "8", "9", "0", "1", "2">>
Doc15 == Doc12 \o <<"3", "4", "5">>

\* rows of SQL_CLIENTES
CliRows ==
    {[CODCLI |-> 10] @@ doc @@ cep :
        doc \in Opt("CGCENT", {Cpf, Cnpj, Doc12, Doc15, <<"1", "2", "3">>,
                              <<"I", "S", "E", "N", "T", "O">>}),
        cep \in Opt("CEPENT", {<<"0", "1", "3", "1", "0", "-", "1", "0", "0">>})}

\* one ordinary row of each row-set
BaseRows ==
    [mov |-> <<[CODFILIAL |-> Filial, CODCLI |-> 10, CODPROD |-> 1, QT |-> 1,
                PUNIT |-> 12340, DTSAIDA |-> 1]>>,
     dev |-> <<[CODFILIAL |-> Filial, CODCLI |-> 10, CODPROD |-> 1, QT |-> 1, DTSAIDA |-> 1]>>,
     fil |-> <<[CODFILIAL |-> Filial, CGC |-> Cnpj]>>,
     cli |-> <<[CODCLI |-> 10, CGCENT |-> Cpf]>>,
     est |-> <<[CODFILIAL |-> Filial, CODPROD |-> 1, CODAUXILIAR |-> EanShort,
                ESTOQUEATUAL |-> 7, DTULTENT |-> 1]>>,
     produtos_unicos |-> <<[CODPROD |-> 1, PTABELA |-> 25904]>>]

NoRows ==
    [mov |-> <<>>, dev |-> <<>>, fil |-> <<>>, cli |-> <<>>, est |-> <<>>,
     produtos_unicos |-> <<>>]

Context == [dados_entrada |-> <<>>, data_arquivo |-> 1, codiqvia |-> <<"9", "9">>]

\* the calls of build_payload that are explored: one row-set (two for the
\* products and the inventory, which share dados_entrada) ranges over the
\* sequences of at most MaxRows of its rows, the others are all empty or all
\* hold one ordinary row
IsBuildInput(a) ==
    \E b \in {NoRows, BaseRows}, k \in 0..MaxRows :
        \/ \E s \in [1..k -> MovPriceRows] : a = [b EXCEPT !.mov = s] @@ Context
        \/ \E s \in [1..k -> MovDocRows] : a = [b EXCEPT !.mov = s] @@ Context
        \/ \E s \in [1..k -> DevRows] : a = [b EXCEPT !.dev = s] @@ Context
        \/ \E s \in [1..k -> FilRows] : a = [b EXCEPT !.fil = s] @@ Context
        \/ \E s \in [1..k -> CliRows] : a = [b EXCEPT !.cli = s] @@ Context
        \/ \E s \in [1..k -> ProdRows], d \in DadosEntrada :
              a = [b EXCEPT !.produtos_unicos = s] @@ [Context EXCEPT !.dados_entrada = d]
        \/ \E s \in [1..k -> EstRows], d \in DadosEntrada, t \in 2..MaxDay :
              a = [b EXCEPT !.est = s]
                    @@ [Context EXCEPT !.dados_entrada = d, !.data_arquivo = t]

-----------------------------------------------------------------------------
(* Specification of build_payload: one call on each of the inputs *)

Idle == [k |-> "none"]

InitBuild ==
    /\ mode = "build_payload"
    /\ pc = "call"
    /\ IsBuildInput(inp)
    /\ out = Idle
    /\ day = 0 /\ rows = <<>> /\ json_paths = <<>> /\ fs = <<>>
    /\ log = <<>> /\ calls = <<>> /\ history = <<>> /\ loc = <<>>

BuildPayload ==
    /\ mode = "build_payload" /\ pc = "call"
    /\ out' = build_payload(inp)
    /\ pc' = "done"
    /\ UNCHANGED <<mode, inp, day, rows, json_paths, fs, log, calls, history, loc>>

NextBuild == BuildPayload

SpecBuild == InitBuild /\ [][NextBuild]_vars

-----------------------------------------------------------------------------
(* Properties of build_payload *)

Returned == mode = "build_payload" /\ pc = "done" /\ ~out.raised

\* the column holds a non-empty text
HasText(r, c) == c \in DOMAIN r /\ r[c] # <<>>

\* number of the rows s[1..i] that satisfy keep
Rank(s, i, keep(_)) == Cardinality({j \in 1..i : keep(s[j])})

\* the identifying code of a product or inventory row can be resolved
Resolvable(r) ==
    \/ HasText(r, "CODAUXILIAR")
    \/ r.CODPROD \in DOMAIN inp.dados_entrada /\ inp.dados_entrada[r.CODPROD].ean # <<>>

\* C1: a row of produtos_unicos yields a record in 'produtos' if and only if
\* its CODAUXILIAR is non-empty or dados_entrada holds a non-empty 'ean' for
\* its CODPROD; the records keep the order of the rows, and a record whose
\* code comes from the lookup carries that code in eanSellIn and eanSellOut.
C1_ProductIffCodeResolvable ==
    Returned =>
        LET P == inp.produtos_unicos
            recs == out.payload.produtos
        IN /\ Len(recs) = Rank(P, Len(P), Resolvable)
           /\ \A i \in 1..Len(P) :
                Resolvable(P[i]) =>
                    LET rec == recs[Rank(P, i, Resolvable)]
                    IN /\ rec.cod = Str(P[i].CODPROD)
                       /\ HasText(P[i], "CODAUXILIAR") =>
                            rec.eanSellIn = P[i].CODAUXILIAR
                       /\ ~HasText(P[i], "CODAUXILIAR") =>
                            /\ rec.eanSellIn = inp.dados_entrada[P[i].CODPROD].ean
                            /\ rec.eanSellOut = inp.dados_entrada[P[i].CODPROD].ean

\* a product without CODAUXILIAR is emitted with the code of the lookup, and
\* a product without any code is dropped
C1_Witness ==
    /\ Returned
    /\ \E i \in 1..Len(inp.produtos_unicos) :
         /\ ~HasText(inp.produtos_unicos[i], "CODAUXILIAR")
         /\ Resolvable(inp.produtos_unicos[i])
    /\ \E i \in 1..Len(inp.produtos_unicos) : ~Resolvable(inp.produtos_unicos[i])
    /\ \E j \in 1..Len(out.payload.produtos) :
         out.payload.produtos[j].eanSellIn = Ean13 /\ out.payload.produtos[j].eanSellOut = Ean13

\* C2: a row of est yields a record in 'estoque' if and only if its
\* CODAUXILIAR is non-empty or dados_entrada holds a non-empty 'ean' for its
\* CODPROD; every record has dt = the reference date and qt = ESTOQUEATUAL.
C2_InventoryIffCodeResolvable ==
    Returned =>
        LET E == inp.est
            recs == out.payload.estoque
        IN /\ Len(recs) = Rank(E, Len(E), Resolvable)
           /\ \A i \in 1..Len(E) :
                Resolvable(E[i]) =>
                    LET rec == recs[Rank(E, i, Resolvable)]
                    IN /\ rec.codProd = Str(E[i].CODPROD)
                       /\ rec.dt = FmtYmd(inp.data_arquivo)
                       /\ rec.qt = (IF "ESTOQUEATUAL" \in DOMAIN E[i]
                                    THEN E[i].ESTOQUEATUAL ELSE 0)

\* an inventory row whose own date differs from the reference date is
\* emitted, one through the lookup, and another row is dropped
C2_Witness ==
    /\ Returned
    /\ \E i \in 1..Len(inp.est) :
         /\ inp.est[i].DTULTENT # inp.data_arquivo
         /\ ~HasText(inp.est[i], "CODAUXILIAR") /\ Resolvable(inp.est[i])
         /\ "ESTOQUEATUAL" \in DOMAIN inp.est[i]
    /\ \E i \in 1..Len(inp.est) : ~Resolvable(inp.est[i])
    /\ Len(out.payload.estoque) > 0

\* the unit price of a sale row (zero when the column is absent or NULL)
Punit(r) == IF "PUNIT" \in DOMAIN r THEN r.PUNIT ELSE 0
Ptabela(r) == IF "PTABELA" \in DOMAIN r THEN r.PTABELA ELSE 0
Marked(r) == "BRINDE" \in DOMAIN r /\ r.BRINDE = <<"S">>

\* the discount block of a free-goods line that reports price p
IsGiftDiscount(preco, p) ==
    /\ "desconto" \in DOMAIN preco
    /\ preco.desconto.paraConsumidorFinal = 12
    /\ preco.desconto.perc = 100 * 1000
    /\ preco.desconto.valor = p
    /\ preco.valor.liquido = p /\ preco.valor.bruto = p

\* C3 as stated: a sale line is free-goods exactly when PUNIT is zero or
\* BRINDE is 'S'; a free-goods line with zero unit price reports PTABELA as
\* liquido and bruto; the desconto block is present exactly on free-goods
\* lines, with paraConsumidorFinal 12, perc 100 and valor the reported price.
C3_AsStated ==
    Returned =>
        \A i \in 1..Len(inp.mov) :
            LET r == inp.mov[i]
                preco == out.payload.vendas[i].preco
                gift == Punit(r) = 0 \/ Marked(r)
            IN /\ ("desconto" \in DOMAIN preco) <=> gift
               /\ gift /\ Punit(r) = 0 => IsGiftDiscount(preco, Ptabela(r))
               /\ gift => IsGiftDiscount(preco, preco.valor.liquido)

\* C3 amended: a sale line is free-goods exactly when PUNIT rounded to two
\* decimals is zero or BRINDE is 'S'; a free-goods line whose rounded unit
\* price is zero reports PTABELA rounded to two decimals as liquido and
\* bruto, any other line its rounded unit price; the desconto block is
\* present exactly on free-goods lines, with paraConsumidorFinal 12, perc 100
\* and valor the reported price.
C3_FreeGoods ==
    Returned =>
        \A i \in 1..Len(inp.mov) :
            LET r == inp.mov[i]
                preco == out.payload.vendas[i].preco
                gift == Round2(Punit(r)) = 0 \/ Marked(r)
            IN /\ ("desconto" \in DOMAIN preco) <=> gift
               /\ gift /\ Round2(Punit(r)) = 0 => IsGiftDiscount(preco, Round2(Ptabela(r)))
               /\ gift /\ Round2(Punit(r)) # 0 => IsGiftDiscount(preco, Round2(Punit(r)))
               /\ ~gift => preco.valor.liquido = Round2(Punit(r))
                           /\ preco.valor.bruto = Round2(Punit(r))

\* the scenario PUNIT 0.00, no marker, PTABELA 19.90, next to a marked line
\* with a price and to a line that is not free-goods
C3_Witness ==
    /\ Returned
    /\ \E i \in 1..Len(inp.mov) :
         /\ "PUNIT" \in DOMAIN inp.mov[i] /\ inp.mov[i].PUNIT = 0
         /\ "BRINDE" \notin DOMAIN inp.mov[i]
         /\ "PTABELA" \in DOMAIN inp.mov[i] /\ inp.mov[i].PTABELA = 19900
         /\ out.payload.vendas[i].preco.valor.liquido = 19900
         /\ out.payload.vendas[i].preco.desconto.valor = 19900
    /\ \E i \in 1..Len(inp.mov) :
         Punit(inp.mov[i]) = 12340 /\ "desconto" \in DOMAIN out.payload.vendas[i].preco

\* C4: every record of 'vendasDevolucoesCancelamentos' has a positive qt equal
\* to the absolute value of the QT of its source row.
C4_ReturnQtyPositive ==
    Returned =>
        \A i \in 1..Len(inp.dev) :
            "QT" \in DOMAIN inp.dev[i] =>
                /\ out.payload.vendasDevolucoesCancelamentos[i].qt > 0
                /\ out.payload.vendasDevolucoesCancelamentos[i].qt =
                     (IF inp.dev[i].QT < 0 THEN 0 - inp.dev[i].QT ELSE inp.dev[i].QT)

\* C5: no sale line whose source unit price is zero is reported with a zero
\* preco.valor.liquido or preco.valor.bruto.
C5_NoZeroPriceReported ==
    Returned =>
        \A i \in 1..Len(inp.mov) :
            ("PUNIT" \in DOMAIN inp.mov[i] /\ inp.mov[i].PUNIT = 0) =>
                /\ out.payload.vendas[i].preco.valor.liquido # 0
                /\ out.payload.vendas[i].preco.valor.bruto # 0

-----------------------------------------------------------------------------
(* Specification of the formatters: one call of format_cep, format_cnpj or *)
(* format_cpf on a text with a known run of digits                         *)

\* the first n digits of 1234567890123...
Run(n) == [i \in 1..n |-> Digits[(i % 10) + 1]]

\* the ways the digits come written: bare, with the punctuation of a mask
\* (a dot after every third digit and a dash before the last), or between
\* blanks
Styles == {"bare", "masked", "blanks"}

RECURSIVE Masked(_)
Masked(d) == IF Len(d) <= 1 THEN <<"-">> \o d
             ELSE IF Len(d) % 3 = 1 THEN Masked(SubSeq(d, 1, Len(d) - 1)) \o <<".", d[Len(d)]>>
             ELSE Masked(SubSeq(d, 1, Len(d) - 1)) \o <<d[Len(d)]>>

Written(d, style) == IF style = "bare" THEN d
                     ELSE IF style = "masked" THEN Masked(d)
                     ELSE <<" ">> \o d \o <<" ">>

Formatters == {"format_cep", "format_cnpj", "format_cpf"}

InitFormat ==
    /\ mode = "format"
    /\ pc = "call"
    /\ \E fn \in Formatters :
          \/ inp = [fn |-> fn, digits |-> <<>>, text |-> None]
          \/ \E n \in 0..MaxDigits, style \in Styles :
                inp = [fn |-> fn, digits |-> Run(n), text |-> Written(Run(n), style)]
    /\ out = Idle
    /\ day = 0 /\ rows = <<>> /\ json_paths = <<>> /\ fs = <<>>
    /\ log = <<>> /\ calls = <<>> /\ history = <<>> /\ loc = <<>>

Format ==
    /\ mode = "format" /\ pc = "call"
    /\ out' = [k |-> "returned",
               value |-> IF inp.fn = "format_cep" THEN format_cep(inp.text)
                         ELSE IF inp.fn = "format_cnpj" THEN format_cnpj(inp.text)
                         ELSE format_cpf(inp.text)]
    /\ pc' = "done"
    /\ UNCHANGED <<mode, inp, day, rows, json_paths, fs, log, calls, history, loc>>

NextFormat == Format

SpecFormat == InitFormat /\ [][NextFormat]_vars

\* the width each formatter pads to
Width == [format_cep |-> 8, format_cnpj |-> 14, format_cpf |-> 11]

Zeros(k) == [i \in 1..k |-> "0"]

\* C18: format_cep, format_cnpj and format_cpf return the empty string for
\* an empty or None input; for an input with at least one and fewer than
\* width digits (8, 14, 11) they return exactly width characters, '0'
\* padding followed by the digits of the input in their order; for an input
\* with more than width digits, the left-most width digits.
C18_ZeroPadToWidth ==
    (mode = "format" /\ pc = "done") =>
        LET w == Width[inp.fn]
            n == Len(inp.digits)
        IN /\ Falsy(inp.text) => out.value = <<>>
           /\ (n >= 1 /\ n < w) =>
                 /\ Len(out.value) = w
                 /\ out.value = Zeros(w - n) \o inp.digits
           /\ n >= w => out.value = SubSeq(inp.digits, 1, w)

\* format_cep("1234") gave "00001234"
C18_Witness ==
    /\ mode = "format" /\ pc = "done"
    /\ inp.fn = "format_cep" /\ inp.text = <<"1", "2", "3", "4">>
    /\ out.value = <<"0", "0", "0", "0", "1", "2", "3", "4">>

-----------------------------------------------------------------------------
(* Specification of validate_field_length: one call on a short text made *)
(* of letters, blanks and the characters clean_text repairs                *)

TextChars == {"a", " ", "xC3", "xA3", "uFFFD"}

MaxLengths == {1, 2, 3}

InitTruncate ==
    /\ mode = "truncate"
    /\ pc = "call"
    /\ \E m \in MaxLengths :
          \/ inp = [value |-> None, max_length |-> m]
          \/ \E n \in 0..MaxLen : \E t \in [1..n -> TextChars] :
                inp = [value |-> t, max_length |-> m]
    /\ out = Idle
    /\ day = 0 /\ rows = <<>> /\ json_paths = <<>> /\ fs = <<>>
    /\ log = <<>> /\ calls = <<>> /\ history = <<>> /\ loc = <<>>

Truncate ==
    /\ mode = "truncate" /\ pc = "call"
    /\ out' = [k |-> "returned", value |-> validate_field_length(inp.value, inp.max_length)]
    /\ pc' = "done"
    /\ UNCHANGED <<mode, inp, day, rows, json_paths, fs, log, calls, history, loc>>

NextTruncate == Truncate

SpecTruncate == InitTruncate /\ [][NextTruncate]_vars

\* C21: validate_field_length returns at most max_length characters; when
\* the cleaned text is longer than max_length the result has exactly
\* max_length characters and is a prefix of the cleaned text, when it is
\* within the bound the result is the cleaned text itself, and None gives
\* the empty string.
C21_TruncateAfterCleaning ==
    (mode = "truncate" /\ pc = "done") =>
        LET cleaned == clean_text(inp.value)
            m == inp.max_length
        IN /\ Len(out.value) <= m
           /\ Len(cleaned) > m =>
                 /\ Len(out.value) = m
                 /\ \A i \in 1..m : out.value[i] = cleaned[i]
           /\ Len(cleaned) <= m => out.value = cleaned
           /\ inp.value = None => out.value = <<>>

\* a text whose blanks collapse and that is then cut to two characters
C21_Witness ==
    /\ mode = "truncate" /\ pc = "done"
    /\ inp.value = <<" ", "a", " ", "a">> /\ inp.max_length = 2
    /\ out.value = <<"a", " ">>

-----------------------------------------------------------------------------
(* validator.py.  A Python value is a record tagged with the name of its    *)
(* type: t = type(v).__name__.  A dict keeps the insertion order of its     *)
(* keys in `keys`.  The text of a payload string is a sequence of           *)
(* characters; the text of a type name in a spec is a TLA+ string.          *)

MaxItems == 2       \* elements of a list of the payloads that are validated

PyStr(s) == [t |-> "str", s |-> s]
PyInt(i) == [t |-> "int", i |-> i]
PyFloat(x) == [t |-> "float", x |-> x]
PyNone == [t |-> "NoneType"]
PyList(l) == [t |-> "list", l |-> l]
PyDict(keys, d) == [t |-> "dict", keys |-> keys, d |-> d]

InSeq(x, s) == \E i \in 1..Len(s) : s[i] = x

\* sub in s, for two texts
Contains(s, sub) ==
    \E i \in 0..(Len(s) - Len(sub)) : SubSeq(s, i + 1, i + Len(sub)) = sub

\* the first-level keys that validate_payload requires, and their characters
RequiredKeys == <<"data", "estabelecimentos", "clientes", "produtos", "vendas", "estoque">>

KeyText ==
    [data |-> <<"d", "a", "t", "a">>,
     estabelecimentos |-> <<"e", "s", "t", "a", "b", "e", "l", "e", "c", "i", "m", "e", "n",
                            "t", "o", "s">>,
     clientes |-> <<"c", "l", "i", "e", "n", "t", "e", "s">>,
     produtos |-> <<"p", "r", "o", "d", "u", "t", "o", "s">>,
     vendas |-> <<"v", "e", "n", "d", "a", "s">>,
     estoque |-> <<"e", "s", "t", "o", "q", "u", "e">>]

\* the template FALLBACK_SPEC
T(name) == [t |-> "str", s |-> name]

EnderSpec ==
    PyDict(<<"descr", "cep", "cidade", "uf", "tel">>,
           [descr |-> T("str"), cep |-> T("str"), cidade |-> T("str"), uf |-> T("str"),
            tel |-> T("str")])

FALLBACK_SPEC ==
    PyDict(RequiredKeys,
      [data |-> T("str"),
       estabelecimentos |-> PyList(<<
          PyDict(<<"cod", "doc", "nome", "nomeOfc", "tipo", "ender", "codIqvia",
                   "tipoCaptacaoPrescricao">>,
                 [cod |-> T("str"), doc |-> T("str"), nome |-> T("str"),
                  nomeOfc |-> T("str"), tipo |-> T("str"), ender |-> EnderSpec,
                  codIqvia |-> T("str"), tipoCaptacaoPrescricao |-> T("int")])>>),
       clientes |-> PyList(<<
          PyDict(<<"tipo", "cod", "profSaude", "doc", "nome", "nomeOfc", "ender">>,
                 [tipo |-> T("int"), cod |-> T("str"), profSaude |-> T("int"),
                  doc |-> T("str"), nome |-> T("str"), nomeOfc |-> T("str"),
                  ender |-> EnderSpec])>>),
       produtos |-> PyList(<<
          PyDict(<<"cod", "eanSellIn", "eanSellOut", "ncm", "apresent", "fabr",
                   "precoFabrica", "dispViaFarmaciaPopular", "dispViaPbm", "marcaPropria">>,
                 [cod |-> T("str"), eanSellIn |-> T("str"), eanSellOut |-> T("str"),
                  ncm |-> T("str"), apresent |-> T("str"), fabr |-> T("str"),
                  precoFabrica |-> T("float"), dispViaFarmaciaPopular |-> T("str"),
                  dispViaPbm |-> T("str"), marcaPropria |-> T("str")])>>),
       vendas |-> PyList(<<
          PyDict(<<"codEstab", "codCliente", "comPrescricao", "paraUsoProfSaude",
                   "codProfSaude", "codProd", "dt", "qt", "ecommerce", "meio", "docTipo",
                   "docFiscalSerie", "docFiscalNum", "danfe", "vendaJudic", "tipoPagto",
                   "preco">>,
                 [codEstab |-> T("str"), codCliente |-> T("str"), comPrescricao |-> T("int"),
                  paraUsoProfSaude |-> T("int"), codProfSaude |-> T("str"),
                  codProd |-> T("str"), dt |-> T("str"), qt |-> T("int"),
                  ecommerce |-> T("int"), meio |-> T("int"), docTipo |-> T("int"),
                  docFiscalSerie |-> T("str"), docFiscalNum |-> T("int"),
                  danfe |-> T("str"), vendaJudic |-> T("int"), tipoPagto |-> T("int"),
                  preco |-> PyDict(<<"valor", "icms">>,
                     [valor |-> PyDict(<<"liquido", "bruto">>,
                                       [liquido |-> T("float"), bruto |-> T("float")]),
                      icms |-> PyDict(<<"isento", "aliq", "valor", "cst", "subsTrib">>,
                         [isento |-> T("int"), aliq |-> T("float"), valor |-> T("float"),
                          cst |-> T("str"),
                          subsTrib |-> PyDict(<<"valor", "embutidoPreco", "cest">>,
                             [valor |-> T("int"), embutidoPreco |-> T("int"),
                              cest |-> T("str")])])])])>>),
       estoque |-> PyList(<<
          PyDict(<<"codEstab", "codProd", "dt", "qt">>,
                 [codEstab |-> T("str"), codProd |-> T("str"), dt |-> T("str"),
                  qt |-> T("int")])>>)])

EmptyDict == PyDict(<<>>, <<>>)

\* the template load_spec derives from an example file (first-level keys only)
ShallowSpec ==
    PyDict(RequiredKeys,
      [data |-> T("str"),
       estabelecimentos |-> PyList(<<EmptyDict>>),
       clientes |-> PyList(<<EmptyDict>>),
       produtos |-> PyList(<<EmptyDict>>),
       vendas |-> PyList(<<EmptyDict>>),
       estoque |-> PyList(<<EmptyDict>>)])

\* load_spec(path); file describes what path names: "" (no path given),
\* "missing" (not a file), "unparsable" or "json"
load_spec(file) == IF file = "json" THEN ShallowSpec ELSE FALLBACK_SPEC

\* _type_ok(value, tname); a bool is an int
_type_ok(value, tname) ==
    IF tname = "str" THEN value.t = "str"
    ELSE IF tname = "int" THEN value.t \in {"int", "bool"}
    ELSE IF tname = "float" THEN value.t \in {"int", "bool", "float"}
    ELSE IF tname = "list" THEN value.t = "list"
    ELSE IF tname = "dict" THEN value.t = "dict"
    ELSE TRUE

\* a message f"{path}: {text}"; a path is the sequence of its segments
\* ("$", ".key", "[index]"), which the f-strings concatenate
Msg(path, text) == [path |-> path, text |-> text]

KeySeg(k) == "." \o k
IndexSeg(i) == "[" \o ToString(i) \o "]"

SampleLimit == 2000

\* the slice that keeps every element, whatever the length
Sample_All(l) == l

\* obj[:2000]
Sample(l) == Take(l, SampleLimit)

\* the elements the list branch would go through if it did not return after
\* the type mismatch: iterating a str yields its characters
SampledItems_NoReturn(obj) ==
    IF obj.t = "list" THEN Sample(obj.l)
    ELSE IF obj.t = "str" THEN [i \in 1..Len(Sample(obj.s)) |-> PyStr(<<obj.s[i]>>)]
    ELSE <<>>

\* the elements the list branch goes through: none when obj is not a list
\* (the branch returns), else obj[:2000]
SampledItems(obj) == IF obj.t # "list" THEN <<>> ELSE Sample(obj.l)

\* s[1] \o s[2] \o ... \o s[n], by halves
RECURSIVE Flatten(_)
Flatten(ss) ==
    IF Len(ss) = 0 THEN <<>>
    ELSE IF Len(ss) = 1 THEN ss[1]
    ELSE LET m == Len(ss) \div 2
         IN Flatten(SubSeq(ss, 1, m)) \o Flatten(SubSeq(ss, m + 1, Len(ss)))

\* _validate_obj(obj, spec, path, errs): the messages the call appends to
\* errs, in order
RECURSIVE _validate_obj(_, _, _)
_validate_obj(obj, spec, path) ==
    IF spec.t = "dict"
    THEN IF obj.t # "dict"
         THEN <<Msg(path, "esperado objeto, obtido " \o obj.t)>>
         ELSE Flatten([i \in 1..Len(spec.keys) |->
                  LET k == spec.keys[i] IN
                  IF ~InSeq(k, obj.keys)
                  THEN <<Msg(Append(path, KeySeg(k)), "campo obrigatorio ausente")>>
                  ELSE _validate_obj(obj.d[k], spec.d[k], Append(path, KeySeg(k)))])
    ELSE IF spec.t = "list"
    THEN (IF obj.t # "list"
          THEN <<Msg(path, "esperado lista, obtido " \o obj.t)>>
          ELSE <<>>)
         \o (IF spec.l # <<>> /\ spec.l[1] # PyNone
             THEN LET items == SampledItems(obj)
                  IN Flatten([i \in 1..Len(items) |->
                         _validate_obj(items[i], spec.l[1],
                                       Append(path, IndexSeg(i - 1)))])
             ELSE <<>>)
    ELSE IF spec.t = "str"
    THEN IF ~_type_ok(obj, spec.s)
         THEN <<Msg(path, "tipo esperado " \o spec.s \o ", obtido " \o obj.t)>>
         ELSE <<>>
    ELSE <<>>

\* `key in payload`: membership in a dict or a list, substring of a str
KeyIn(key, payload) ==
    IF payload.t = "dict" THEN InSeq(key, payload.keys)
    ELSE IF payload.t = "list" THEN InSeq(PyStr(KeyText[key]), payload.l)
    ELSE Contains(payload.s, KeyText[key])

\* the loop over the required first-level keys
RECURSIVE MissingKeys(_, _)
MissingKeys(payload, i) ==
    IF i > Len(RequiredKeys) THEN <<>>
    ELSE (IF KeyIn(RequiredKeys[i], payload) THEN <<>>
          ELSE <<Msg(<<"$", KeySeg(RequiredKeys[i])>>, "ausente")>>)
         \o MissingKeys(payload, i + 1)

\* validate_payload(payload, spec): the list of messages, or the TypeError
\* that `key not in payload` raises on a value that is not a container
validate_payload(payload, spec) ==
    IF payload.t \notin {"dict", "list", "str"}
    THEN [raised |-> TRUE, exc |-> "TypeError"]
    ELSE [raised |-> FALSE,
          errs |-> MissingKeys(payload, 1) \o _validate_obj(payload, spec, <<"$">>)]

-----------------------------------------------------------------------------
(* The envelope of build_payload as a Python value: every field with the    *)
(* type the builder gives it (str(...), int(...), round(float(...), 2)).    *)

PyEnder(e) ==
    PyDict(<<"descr", "compl", "cep", "cidade", "uf", "tel">>,
           [descr |-> PyStr(e.descr), compl |-> PyStr(e.compl), cep |-> PyStr(e.cep),
            cidade |-> PyStr(e.cidade), uf |-> PyStr(e.uf), tel |-> PyStr(e.tel)])

PyEstab(e) ==
    PyDict(<<"cod", "doc", "nome", "nomeOfc", "tipo", "tipoCaptacaoPrescricao", "ender",
             "codIqvia">>,
           [cod |-> PyStr(e.cod), doc |-> PyStr(e.doc), nome |-> PyStr(e.nome),
            nomeOfc |-> PyStr(e.nomeOfc), tipo |-> PyStr(e.tipo),
            tipoCaptacaoPrescricao |-> PyInt(e.tipoCaptacaoPrescricao),
            ender |-> PyEnder(e.ender), codIqvia |-> PyStr(e.codIqvia)])

PyCliente(c) ==
    PyDict(<<"cod", "doc", "nome", "nomeOfc", "tipo", "profSaude", "ender">>,
           [cod |-> PyStr(c.cod), doc |-> PyStr(c.doc), nome |-> PyStr(c.nome),
            nomeOfc |-> PyStr(c.nomeOfc), tipo |-> PyInt(c.tipo),
            profSaude |-> PyInt(c.profSaude), ender |-> PyEnder(c.ender)])

PyProduto(x) ==
    PyDict(<<"cod", "eanSellIn", "eanSellOut", "ncm", "apresent", "fabr", "precoFabrica",
             "dispViaFarmaciaPopular", "dispViaPbm", "marcaPropria">>,
           [cod |-> PyStr(x.cod), eanSellIn |-> PyStr(x.eanSellIn),
            eanSellOut |-> PyStr(x.eanSellOut), ncm |-> PyStr(x.ncm),
            apresent |-> PyStr(x.apresent), fabr |-> PyStr(x.fabr),
            precoFabrica |-> PyFloat(x.precoFabrica),
            dispViaFarmaciaPopular |-> PyStr(x.dispViaFarmaciaPopular),
            dispViaPbm |-> PyStr(x.dispViaPbm), marcaPropria |-> PyStr(x.marcaPropria)])

PyPreco(x) ==
    LET valor == PyDict(<<"liquido", "bruto">>,
                        [liquido |-> PyFloat(x.valor.liquido), bruto |-> PyFloat(x.valor.bruto)])
        icms == PyDict(<<"isento", "aliq", "valor", "cst", "subsTrib">>,
                       [isento |-> PyInt(x.icms.isento), aliq |-> PyFloat(x.icms.aliq),
                        valor |-> PyFloat(x.icms.valor), cst |-> PyStr(x.icms.cst),
                        subsTrib |-> PyDict(<<"valor", "embutidoPreco", "cest">>,
                            [valor |-> PyInt(x.icms.subsTrib.valor),
                             embutidoPreco |-> PyInt(x.icms.subsTrib.embutidoPreco),
                             cest |-> PyStr(x.icms.subsTrib.cest)])])
    IN IF "desconto" \in DOMAIN x
       THEN PyDict(<<"valor", "icms", "desconto">>,
                   [valor |-> valor, icms |-> icms,
                    desconto |-> PyDict(<<"paraConsumidorFinal", "perc", "valor">>,
                        [paraConsumidorFinal |-> PyInt(x.desconto.paraConsumidorFinal),
                         perc |-> PyFloat(x.desconto.perc),
                         valor |-> PyFloat(x.desconto.valor)])])
       ELSE PyDict(<<"valor", "icms">>, [valor |-> valor, icms |-> icms])

\* the sale record when the series is left a number: int(SERIE) without str()
PyVenda_SerieAsNumber(v) ==
    PyDict(<<"codEstab", "codCliente", "comPrescricao", "paraUsoProfSaude", "codProfSaude",
             "codProd", "dt", "qt", "ecommerce", "meio", "docTipo", "docFiscalSerie",
             "docFiscalNum", "danfe", "vendaJudic", "tipoPagto", "preco">>,
           [codEstab |-> PyStr(v.codEstab), codCliente |-> PyStr(v.codCliente),
            comPrescricao |-> PyInt(v.comPrescricao),
            paraUsoProfSaude |-> PyInt(v.paraUsoProfSaude),
            codProfSaude |-> PyStr(v.codProfSaude), codProd |-> PyStr(v.codProd),
            dt |-> PyStr(v.dt), qt |-> PyInt(v.qt), ecommerce |-> PyInt(v.ecommerce),
            meio |-> PyInt(v.meio), docTipo |-> PyInt(v.docTipo),
            docFiscalSerie |-> PyInt(ParseNat(v.docFiscalSerie)),
            docFiscalNum |-> PyInt(v.docFiscalNum), danfe |-> PyStr(v.danfe),
            vendaJudic |-> PyInt(v.vendaJudic), tipoPagto |-> PyInt(v.tipoPagto),
            preco |-> PyPreco(v.preco)])

\* the sale record with the types its values have
PyVenda(v) ==
    PyDict(<<"codEstab", "codCliente", "comPrescricao", "paraUsoProfSaude", "codProfSaude",
             "codProd", "dt", "qt", "ecommerce", "meio", "docTipo", "docFiscalSerie",
             "docFiscalNum", "danfe", "vendaJudic", "tipoPagto", "preco">>,
           [codEstab |-> PyStr(v.codEstab), codCliente |-> PyStr(v.codCliente),
            comPrescricao |-> PyInt(v.comPrescricao),
            paraUsoProfSaude |-> PyInt(v.paraUsoProfSaude),
            codProfSaude |-> PyStr(v.codProfSaude), codProd |-> PyStr(v.codProd),
            dt |-> PyStr(v.dt), qt |-> PyInt(v.qt), ecommerce |-> PyInt(v.ecommerce),
            meio |-> PyInt(v.meio), docTipo |-> PyInt(v.docTipo),
            docFiscalSerie |-> PyStr(v.docFiscalSerie),
            docFiscalNum |-> PyInt(v.docFiscalNum), danfe |-> PyStr(v.danfe),
            vendaJudic |-> PyInt(v.vendaJudic), tipoPagto |-> PyInt(v.tipoPagto),
            preco |-> PyPreco(v.preco)])

PyDevolucao(v) ==
    PyDict(<<"codEstab", "codCliente", "codProfSaude", "codProd", "comPrescricao",
             "ecommerce", "dt", "qt">>,
           [codEstab |-> PyStr(v.codEstab), codCliente |-> PyStr(v.codCliente),
            codProfSaude |-> PyStr(v.codProfSaude), codProd |-> PyStr(v.codProd),
            comPrescricao |-> PyInt(v.comPrescricao), ecommerce |-> PyInt(v.ecommerce),
            dt |-> PyStr(v.dt), qt |-> PyInt(v.qt)])

PyEstoque(x) ==
    PyDict(<<"codEstab", "codProd", "dt", "qt">>,
           [codEstab |-> PyStr(x.codEstab), codProd |-> PyStr(x.codProd),
            dt |-> PyStr(x.dt), qt |-> PyInt(x.qt)])

PyEnvelope(p) ==
    PyDict(<<"data", "estabelecimentos", "clientes", "produtos", "vendas",
             "vendasDevolucoesCancelamentos", "estoque", "profissionaisSaude", "pacientes",
             "fornecedores", "planosSaude", "laboratoriosPBM", "compras",
             "comprasDevolucoesCancelamentos", "prescricoes">>,
           [data |-> PyStr(p.data),
            estabelecimentos |-> PyList(Map(p.estabelecimentos, PyEstab)),
            clientes |-> PyList(Map(p.clientes, PyCliente)),
            produtos |-> PyList(Map(p.produtos, PyProduto)),
            vendas |-> PyList(Map(p.vendas, PyVenda)),
            vendasDevolucoesCancelamentos |->
                PyList(Map(p.vendasDevolucoesCancelamentos, PyDevolucao)),
            estoque |-> PyList(Map(p.estoque, PyEstoque)),
            profissionaisSaude |-> PyList(<<>>), pacientes |-> PyList(<<>>),
            fornecedores |-> PyList(<<>>), planosSaude |-> PyList(<<>>),
            laboratoriosPBM |-> PyList(<<>>), compras |-> PyList(<<>>),
            comprasDevolucoesCancelamentos |-> PyList(<<>>),
            prescricoes |-> PyList(<<>>)])

-----------------------------------------------------------------------------
(* Inputs of validate_payload *)

Text2024 == <<"2", "0", "2", "4">>

\* elements of a list of the payload: inventory records, well-formed or not
EstItem(qt) ==
    PyDict(<<"codEstab", "codProd", "dt", "qt">>,
           [codEstab |-> PyStr(<<"1">>), codProd |-> PyStr(<<"7">>),
            dt |-> PyStr(Text2024), qt |-> qt])

Items ==
    {EstItem(PyInt(7)), EstItem(PyStr(<<"7">>)),
     PyDict(<<"codEstab">>, [codEstab |-> PyStr(<<"1">>)]),
     PyInt(1)}

\* values found under a first-level key in place of the list
Scalars == {PyStr(<<"x", "y">>), PyStr(<<>>), PyInt(3), PyNone, EmptyDict}

\* the payload with all first-level keys but those of `missing`, whose
\* sections are empty, and v under the key k
PayloadWith(missing, k, v) ==
    LET keys == SelectSeq(RequiredKeys \o <<"prescricoes">>, LAMBDA x : x \notin missing)
    IN PyDict(keys,
              [x \in {keys[i] : i \in 1..Len(keys)} |->
                  IF x = k THEN v
                  ELSE IF x = "data" THEN PyStr(Text2024) ELSE PyList(<<>>)])

\* payloads that are not an object
NonObjects ==
    {PyList(<<>>), PyList(<<PyStr(KeyText["vendas"])>>), PyStr(<<>>),
     PyStr(KeyText["vendas"] \o KeyText["data"]), PyInt(5), PyFloat(1500), PyNone}

\* a list of n inventory records, well-formed but those at the positions of
\* `bad` (counted from 1), which are `item`
LongList(n, bad, item) == [i \in 1..n |-> IF i \in bad THEN item ELSE EstItem(PyInt(7))]

\* lengths around the sampling limit, and positions on both sides of it
LongLens == {SampleLimit + n : n \in 0..MaxItems}
BadAt == {1, SampleLimit, SampleLimit + 1, SampleLimit + MaxItems}

Specs == {FALLBACK_SPEC, ShallowSpec, PyNone, PyList(<<>>), T("dict")}

RequiredKeySet == {RequiredKeys[i] : i \in 1..Len(RequiredKeys)}

IsValidateInput(a) ==
    \E spec \in Specs :
        \/ \E p \in NonObjects : a = [payload |-> p, spec |-> spec]
        \/ \E missing \in SUBSET RequiredKeySet, k \in {"data", "estoque"} :
              \/ \E v \in Scalars :
                    a = [payload |-> PayloadWith(missing, k, v), spec |-> spec]
              \/ \E n \in 0..MaxItems : \E l \in [1..n -> Items] :
                    a = [payload |-> PayloadWith(missing, k, PyList(l)), spec |-> spec]
        \/ \E n \in LongLens : \E bad \in SUBSET {b \in BadAt : b <= n}, item \in Items :
              a = [payload |-> PayloadWith({}, "estoque", PyList(LongList(n, bad, item))),
                   spec |-> spec]

-----------------------------------------------------------------------------
(* Specification of validate_payload: one call on each of the inputs *)

InitValidate ==
    /\ mode = "validate_payload"
    /\ pc = "call"
    /\ IsValidateInput(inp)
    /\ out = Idle
    /\ day = 0 /\ rows = <<>> /\ json_paths = <<>> /\ fs = <<>>
    /\ log = <<>> /\ calls = <<>> /\ history = <<>> /\ loc = <<>>

ValidatePayload ==
    /\ mode = "validate_payload" /\ pc = "call"
    /\ out' = validate_payload(inp.payload, inp.spec)
    /\ pc' = "done"
    /\ UNCHANGED <<mode, inp, day, rows, json_paths, fs, log, calls, history, loc>>

NextValidate == ValidatePayload

SpecValidate == InitValidate /\ [][NextValidate]_vars

-----------------------------------------------------------------------------
(* Properties of validate_payload *)

Validated == mode = "validate_payload" /\ pc = "done"

\* the messages of errs whose path is p, and those whose path starts with p
At(errs, p) == {i \in 1..Len(errs) : errs[i].path = p}
Under(errs, p) ==
    {i \in 1..Len(errs) : Len(errs[i].path) >= Len(p) /\ SubSeq(errs[i].path, 1, Len(p)) = p}

LacksOnlyVendas(payload) ==
    /\ payload.t = "dict"
    /\ \A k \in RequiredKeySet : InSeq(k, payload.keys) <=> k # "vendas"

\* C6: validate_payload reports exactly one discrepancy, naming the key's
\* path, for each key required by the spec that is missing from the payload
\* object; a payload that lacks only 'vendas' yields exactly one message,
\* which names $.vendas.
C6_OneMessagePerMissingKey ==
    (Validated /\ inp.payload.t = "dict" /\ inp.spec.t = "dict") =>
        /\ \A i \in 1..Len(inp.spec.keys) :
             ~InSeq(inp.spec.keys[i], inp.payload.keys) =>
                Cardinality(At(out.errs, <<"$", "." \o inp.spec.keys[i]>>)) = 1
        /\ (LacksOnlyVendas(inp.payload) /\ inp.payload.d["data"].t = "str"
            /\ inp.payload.d["estoque"] = PyList(<<>>)) =>
                /\ Len(out.errs) = 1
                /\ out.errs[1].path = <<"$", ".vendas">>

\* C7: validate_payload never raises, whatever the payload and the spec.
C7_ValidateNeverRaises == Validated => ~out.raised

\* C8: when the spec node at a path is a list and the payload value at that
\* path is not a list, validate_payload reports one type mismatch at that
\* path and nothing at or below that path besides it.
C8_ListTypeMismatch ==
    (Validated /\ inp.payload.t = "dict" /\ inp.spec.t = "dict") =>
        \A i \in 1..Len(inp.spec.keys) :
            LET k == inp.spec.keys[i]
                p == <<"$", "." \o k>>
            IN (inp.spec.d[k].t = "list" /\ InSeq(k, inp.payload.keys)
                /\ inp.payload.d[k].t # "list") =>
                  /\ Cardinality(Under(out.errs, p)) = 1
                  /\ \E j \in At(out.errs, p) :
                       out.errs[j].text = "esperado lista, obtido " \o inp.payload.d[k].t

\* 'estoque' is a string where FALLBACK_SPEC expects a list
C8_Witness ==
    /\ Validated /\ inp.spec = FALLBACK_SPEC /\ inp.payload.t = "dict"
    /\ InSeq("estoque", inp.payload.keys)
    /\ inp.payload.d["estoque"] = PyStr(<<"x", "y">>)
    /\ \E j \in 1..Len(out.errs) :
         out.errs[j] = Msg(<<"$", ".estoque">>, "esperado lista, obtido str")

-----------------------------------------------------------------------------
(* save_json, zip_period, get_token and the data provider of run_period *)

\* cfg.iqvia_client_id
ClientId == <<"a", "b">>

\* str.upper() on the characters of a client id
UpperOf == [a |-> "A", b |-> "B"]
Upper(s) == [i \in 1..Len(s) |-> IF s[i] \in DOMAIN UpperOf THEN UpperOf[s[i]] ELSE s[i]]

\* save_json: f"U_{client_id.upper()}_{dia.strftime('%Y%m%d')}.json"
JsonName(client_id, dia) ==
    <<"U", "_">> \o Upper(client_id) \o <<"_">> \o FmtCompact(dia) \o <<".", "j", "s", "o", "n">>

\* the characters of a file name in code point order, for sorted(key=p.name)
NameChars == <<".", "0", "1", "2", "3", "4", "5", "6", "7", "8", "9", "A", "B", "U", "_",
               "i", "j", "n", "o", "p", "s", "z">>
Ord(c) == CHOOSE i \in 1..Len(NameChars) : NameChars[i] = c

RECURSIVE NameLess(_, _)
NameLess(a, b) ==
    IF b = <<>> THEN FALSE
    ELSE IF a = <<>> THEN TRUE
    ELSE IF Head(a) = Head(b) THEN NameLess(Tail(a), Tail(b))
    ELSE Ord(Head(a)) < Ord(Head(b))

\* sorted(json_paths, key=lambda p: p.name)
RECURSIVE Insert(_, _)
Insert(x, s) == IF s = <<>> THEN <<x>>
                ELSE IF NameLess(x, Head(s)) THEN <<x>> \o s
                ELSE <<Head(s)>> \o Insert(x, Tail(s))

RECURSIVE Sorted(_)
Sorted(s) == IF s = <<>> THEN <<>> ELSE Insert(s[Len(s)], Sorted(SubSeq(s, 1, Len(s) - 1)))

\* Path.stem: the name without its last suffix
RECURSIVE Stem(_)
Stem(name) == IF name = <<>> THEN <<>>
              ELSE IF name[Len(name)] = "." THEN SubSeq(name, 1, Len(name) - 1)
              ELSE Stem(SubSeq(name, 1, Len(name) - 1))

\* s[-8:]
Last8(s) == SubSeq(s, IF Len(s) > 8 THEN Len(s) - 7 ELSE 1, Len(s))

\* zip_period that names the archive after its first file only
zip_period_FirstOnly(paths, client_id) ==
    LET sorted == Sorted(paths)
    IN [name |-> <<"U", "_">> \o Upper(client_id) \o <<"_">> \o Last8(Stem(sorted[1]))
                 \o <<"_">> \o Last8(Stem(sorted[1])) \o <<".", "z", "i", "p">>,
        entries |-> sorted]

\* zip_period(json_paths, client_id, out_dir): the name of the archive and
\* the names of its entries
zip_period(paths, client_id) ==
    LET sorted == Sorted(paths)
    IN [name |-> <<"U", "_">> \o Upper(client_id) \o <<"_">> \o Last8(Stem(sorted[1]))
                 \o <<"_">> \o Last8(Stem(sorted[Len(sorted)])) \o <<".", "z", "i", "p">>,
        entries |-> sorted]

\* a log line, without and with an interpolated value
L(text) == [text |-> text]
LA(text, arg) == [text |-> text, arg |-> arg]

\* what one requests.post of get_token meets: the request raises, a non-2xx
\* response, or a 2xx response whose body is a JSON object with a token
\* field, with an empty token field or without one, or is no JSON at all: a
\* bare JWT between blanks, two dot-separated parts, three with one empty
TokenOutcomes == {"exception", "http_error", "json_token", "json_empty", "no_token",
                  "jwt_body", "two_parts", "empty_part"}

NotJson == [k |-> "JSONDecodeError"]

TokenResponse(o) ==
    IF o = "exception" THEN [raises |-> TRUE]
    ELSE IF o = "http_error" THEN [raises |-> FALSE, ok |-> FALSE]
    ELSE IF o = "json_token"
    THEN [raises |-> FALSE, ok |-> TRUE, json |-> [token |-> <<"t", "k">>],
          text |-> <<"{", "t", "k", "}">>]
    ELSE IF o = "json_empty"
    THEN [raises |-> FALSE, ok |-> TRUE, json |-> [access_token |-> <<>>],
          text |-> <<"{", "}">>]
    ELSE IF o = "no_token"
    THEN [raises |-> FALSE, ok |-> TRUE, json |-> [id |-> <<"7">>],
          text |-> <<"{", "7", "}">>]
    ELSE [raises |-> FALSE, ok |-> TRUE, json |-> NotJson,
          text |-> IF o = "jwt_body" THEN <<" ", "a", ".", "b", ".", "c", "\n">>
                   ELSE IF o = "two_parts" THEN <<"a", ".", "b">>
                   ELSE <<"a", ".", ".", "c">>]

\* str.strip()
RECURSIVE Strip(_)
Strip(s) == IF s = <<>> THEN <<>>
            ELSE IF IsSpace(Head(s)) THEN Strip(Tail(s))
            ELSE IF IsSpace(s[Len(s)]) THEN Strip(SubSeq(s, 1, Len(s) - 1))
            ELSE s

\* s.split("."): the parts between the dots
RECURSIVE SplitDot(_)
SplitDot(s) ==
    IF \A i \in 1..Len(s) : s[i] # "." THEN <<s>>
    ELSE LET i == CHOOSE j \in 1..Len(s) : s[j] = "." /\ \A k \in 1..j - 1 : s[k] # "."
         IN <<SubSeq(s, 1, i - 1)>> \o SplitDot(SubSeq(s, i + 1, Len(s)))

\* parts = s.strip().split("."); len(parts) == 3 and all(parts)
_looks_like_jwt(s) ==
    LET parts == SplitDot(Strip(s))
    IN Len(parts) = 3 /\ \A i \in 1..Len(parts) : parts[i] # <<>>

\* j.get("access_token") or j.get("token") or j.get("jwt") or j.get("bearerToken")
TokenKeys == <<"access_token", "token", "jwt", "bearerToken">>

RECURSIVE TokenField(_, _)
TokenField(j, i) ==
    IF i > Len(TokenKeys) THEN None
    ELSE IF TokenKeys[i] \in DOMAIN j /\ ~Falsy(j[TokenKeys[i]]) THEN j[TokenKeys[i]]
    ELSE TokenField(j, i + 1)

\* one attempt of get_token: the token it returns (None if it returns
\* nothing) and its log line
Attempt(outcome, how) ==
    LET r == TokenResponse(outcome) IN
    IF r.raises THEN [tok |-> None, log |-> <<L("Erro tentativa " \o how)>>]
    ELSE IF ~r.ok THEN [tok |-> None, log |-> <<L("Token " \o how \o " falhou")>>]
    ELSE LET tok == IF r.json = NotJson THEN None ELSE TokenField(r.json, 1) IN
         IF ~Falsy(tok)
         THEN [tok |-> tok, log |-> <<L("Token obtido (" \o how \o ").")>>]
         ELSE IF _looks_like_jwt(Strip(r.text))
         THEN [tok |-> Strip(r.text),
               log |-> <<L("Token obtido (JWT puro" \o
                           (IF how = "form" THEN " - form" ELSE "") \o ").")>>]
         ELSE [tok |-> None, log |-> <<>>]

\* get_token that stops after the JSON attempt
get_token_NoFallback(first, second) ==
    LET a1 == Attempt(first, "JSON")
    IN [tok |-> a1.tok, log |-> a1.log, posts |-> <<"json">>]

\* get_token(token_url, client_id, client_secret, logger): the JSON attempt,
\* then the form-encoded attempt if the first returned nothing
get_token(first, second) ==
    LET a1 == Attempt(first, "JSON")
        a2 == Attempt(second, "form")
    IN IF a1.tok # None
       THEN [tok |-> a1.tok, log |-> a1.log, posts |-> <<"json">>]
       ELSE [tok |-> a2.tok, log |-> a1.log \o a2.log, posts |-> <<"json", "form">>]

\* the queries of one day, in the order run_period issues them, and the log
\* line that precedes each
Queries == <<"SQL_MOV", "SQL_DEVOLUCOES", "SQL_FILIAL", "SQL_CLIENTES", "SQL_ESTOQUE",
             "SQL_PRODUTOS_UNICOS", "SQL_ENTRADA_PRODUTOS">>

QueryLog ==
    <<<<L("Consultando movimentacao de faturamento")>>, <<L("Consultando devolucoes")>>,
      <<L("Consultando filiais")>>, <<L("Consultando clientes")>>,
      <<L("Consultando estoque")>>,
      <<L("Consultando dados de entrada para produtos sem EAN/preco")>>, <<>>>>

\* the rows the data provider holds for a day: none at all, ordinary rows,
\* or ordinary rows with a sale whose SERIE is not a number
DayKinds == {"none", "some", "bad"}

Provider(kind, q) ==
    IF kind = "none" THEN <<>>
    ELSE IF q = 1 THEN (IF kind = "bad"
                        THEN <<BaseRows.mov[1] @@ [SERIE |-> <<"U">>]>>
                        ELSE BaseRows.mov)
    ELSE IF q = 2 THEN BaseRows.dev
    ELSE IF q = 3 THEN BaseRows.fil
    ELSE IF q = 4 THEN BaseRows.cli
    ELSE IF q = 5 THEN BaseRows.est
    ELSE IF q = 6 THEN BaseRows.produtos_unicos
    ELSE <<[CODPROD |-> 1, CODAUXILIAR |-> Ean13, PTABELA |-> 5004]>>

\* dados_entrada[int(CODPROD)] = {"ean": CODAUXILIAR or "", "preco": float(PTABELA or 0.0)}
RECURSIVE DadosDe(_)
DadosDe(entradas) ==
    IF entradas = <<>> THEN <<>>
    ELSE LET r == entradas[Len(entradas)]
         IN (r.CODPROD :> [ean |-> Get(r, "CODAUXILIAR", <<>>), preco |-> Get(r, "PTABELA", 0)])
            @@ DadosDe(SubSeq(entradas, 1, Len(entradas) - 1))

\* the log lines of build_payload: one per section it starts
BuildLog(raised) ==
    <<L("...dados das filiais"), L("...dados dos clientes"), L("...dados de produtos"),
      L("...dados de vendas (incluindo brindes) - VERSAO CORRIGIDA")>>
    \o (IF raised THEN <<>>
        ELSE <<L("...dados de devolucoes/cancelamentos"), L("...dados de estoque")>>)

-----------------------------------------------------------------------------
(* controller.run_period *)

\* the upload history file: absent, a JSON object, or a text that json.loads
\* rejects (the object written earlier, cut short or followed by a stray
\* character); d is the entries the text of the file holds
NoHistory == [k |-> "absent"]
HistoryOf(d) == [k |-> "json", d |-> d]
Unparsable(d) == [k |-> "unparsable", d |-> d]

OldEntry == [timestamp |-> "earlier", status |-> "old", file |-> <<"o", "l", "d">>,
             period |-> <<0, 0>>]

BadHistory == Unparsable("g1" :> OldEntry)

Guids == {"g1", "g2"}

\* what upload_zip meets: requests.post raises, raise_for_status raises, a
\* JSON answer with or without a guid, or an answer that is not JSON
UploadOutcomes == {"transport_error", "http_error"} \cup {"raw", "json"} \cup Guids

\* the dict upload_zip returns
UploadResp(o) ==
    IF o \in Guids THEN [guid |-> o, status |-> "received"]
    ELSE IF o = "raw" THEN [raw |-> "text"]
    ELSE [status |-> "received"]

\* the exception now propagating out of the try block
Raising(exc) == [k |-> "raising", exc |-> exc]

Say(lines) == log' = log \o lines
Call(c) == calls' = Append(calls, c)

\* spec = load_spec(example_layout) if validate else None
RunSpec == IF inp.validate THEN load_spec(inp.example_layout) ELSE PyNone

InitRun ==
    /\ mode = "run_period"
    /\ pc = "start"
    /\ \E d0 \in 1..MaxDay, d1 \in 1..MaxDay, upload \in BOOLEAN,
          v \in {<<FALSE, "">>, <<TRUE, "">>, <<TRUE, "missing">>, <<TRUE, "json">>} :
          inp = [d0 |-> d0, d1 |-> d1, upload |-> upload, validate |-> v[1],
                 example_layout |-> v[2]]
    /\ out = Idle
    /\ day = 0 /\ rows = <<>> /\ json_paths = <<>> /\ fs = <<>>
    /\ log = <<>> /\ calls = <<>> /\ loc = <<>>
    /\ history \in {NoHistory, BadHistory, HistoryOf("g1" :> OldEntry)}

\* logger("Conectando..."); conn = connect_oracle(cfg); logger("Conectado...")
Connect ==
    /\ mode = "run_period" /\ pc = "start"
    /\ \/ /\ Say(<<L("Conectando ao Oracle...")>>)
          /\ Call([op |-> "connect_oracle", raised |-> TRUE])
          /\ out' = [k |-> "raised", exc |-> "DatabaseError"]
          /\ pc' = "done"
          /\ UNCHANGED <<day, json_paths>>
       \/ /\ Say(<<L("Conectando ao Oracle..."), L("Conectado. DB version: ")>>)
          /\ Call([op |-> "connect_oracle", raised |-> FALSE])
          /\ json_paths' = <<>>
          /\ day' = inp.d0
          /\ pc' = "loop"
          /\ UNCHANGED out
    /\ UNCHANGED <<mode, inp, rows, fs, history, loc>>

\* utils.daterange(d0, d1): cur = d0; while cur <= d1: yield cur; cur += 1 day
RECURSIVE daterange(_, _)
daterange(d0, d1) == IF d0 <= d1 THEN <<d0>> \o daterange(d0 + 1, d1) ELSE <<>>

\* for dia in daterange(d0, d1): ... logger("Processando dia ...")
\* (day is the value of cur when the generator is resumed)
NextDate ==
    /\ mode = "run_period" /\ pc = "loop"
    /\ IF daterange(day, inp.d1) # <<>>
       THEN /\ \E kind \in DayKinds : rows' = [kind |-> kind, data |-> <<>>]
            /\ Say(<<LA("Processando dia ", day)>>)
            /\ pc' = "fetch"
       ELSE /\ pc' = "archive"
            /\ UNCHANGED <<rows, log>>
    /\ UNCHANGED <<mode, inp, out, day, json_paths, fs, calls, history, loc>>

\* logger("Consultando ..."); x = fetch_df(conn, SQL_x, DIA=dia, CODFILIAL=...)
Fetch ==
    /\ mode = "run_period" /\ pc = "fetch"
    /\ LET q == Len(rows.data) + 1 IN
       /\ Say(QueryLog[q])
       /\ \/ /\ Call([op |-> "fetch_df", sql |-> Queries[q], dia |-> day, raised |-> TRUE])
             /\ out' = Raising("DatabaseError")
             /\ pc' = "finally"
             /\ UNCHANGED rows
          \/ /\ Call([op |-> "fetch_df", sql |-> Queries[q], dia |-> day, raised |-> FALSE,
                      n |-> Len(Provider(rows.kind, q))])
             /\ rows' = [rows EXCEPT !.data = Append(@, Provider(rows.kind, q))]
             /\ pc' = IF q = Len(Queries) THEN "build" ELSE "fetch"
             /\ UNCHANGED out
    /\ UNCHANGED <<mode, inp, day, json_paths, fs, history, loc>>

\* the arguments of build_payload for the row-sets of the day
BuildArgs ==
    [mov |-> rows.data[1], dev |-> rows.data[2], fil |-> rows.data[3], cli |-> rows.data[4],
     est |-> rows.data[5], produtos_unicos |-> rows.data[6],
     dados_entrada |-> DadosDe(rows.data[7]), data_arquivo |-> day,
     codiqvia |-> <<"9", "9">>]

\* the loop body with a handler that logs a failed build_payload and goes
\* on with the next date
Build_SkipOnError ==
    /\ mode = "run_period" /\ pc = "build"
    /\ LET r == build_payload(BuildArgs) IN
       /\ Say(BuildLog(r.raised))
       /\ Call([op |-> "build_payload", dia |-> day, raised |-> r.raised])
       /\ IF r.raised
          THEN /\ day' = day + 1
               /\ pc' = "loop"
               /\ UNCHANGED loc
          ELSE /\ loc' = [payload |-> r.payload]
               /\ pc' = "validate"
               /\ UNCHANGED day
    /\ UNCHANGED <<mode, inp, out, rows, json_paths, fs, history>>

\* dados_entrada = {...}; payload = build_payload(...)
Build ==
    /\ mode = "run_period" /\ pc = "build"
    /\ LET r == build_payload(BuildArgs) IN
       /\ Say(BuildLog(r.raised))
       /\ Call([op |-> "build_payload", dia |-> day, raised |-> r.raised])
       /\ IF r.raised
          THEN /\ out' = Raising(r.exc)
               /\ pc' = "finally"
               /\ UNCHANGED loc
          ELSE /\ loc' = [payload |-> r.payload]
               /\ pc' = "validate"
               /\ UNCHANGED out
    /\ UNCHANGED <<mode, inp, day, rows, json_paths, fs, history>>

\* errs[:200], one log line each
ErrLines(errs) == [i \in 1..Len(Take(errs, 200)) |-> LA(" - ", errs[i])]

\* if validate and spec: errs = validate_payload(payload, spec); log them
Validate ==
    /\ mode = "run_period" /\ pc = "validate"
    /\ IF inp.validate
       THEN LET res == validate_payload(PyEnvelope(loc.payload), RunSpec) IN
            /\ Call([op |-> "validate_payload", dia |-> day, errs |-> Len(res.errs)])
            /\ IF res.errs # <<>>
               THEN Say(<<L("Divergencias encontradas na validacao:")>> \o ErrLines(res.errs))
               ELSE Say(<<L("Payload valido segundo a spec")>>)
       ELSE UNCHANGED <<calls, log>>
    /\ pc' = "save"
    /\ UNCHANGED <<mode, inp, out, day, rows, json_paths, fs, history, loc>>

\* fp = save_json(payload, client_id, dia, out_dir); json_paths.append(fp)
SaveJson ==
    /\ mode = "run_period" /\ pc = "save"
    /\ \/ /\ Call([op |-> "save_json", dia |-> day, raised |-> TRUE])
          /\ out' = Raising("OSError")
          /\ pc' = "finally"
          /\ UNCHANGED <<fs, log, json_paths, day>>
       \/ /\ Call([op |-> "save_json", dia |-> day, raised |-> FALSE])
          /\ fs' = (JsonName(ClientId, day) :> [json |-> loc.payload]) @@ fs
          /\ Say(<<LA("JSON salvo: ", JsonName(ClientId, day))>>)
          /\ json_paths' = Append(json_paths, JsonName(ClientId, day))
          /\ day' = day + 1
          /\ pc' = "loop"
          /\ UNCHANGED out
    /\ UNCHANGED <<mode, inp, rows, history, loc>>

\* the archive step without the `if json_paths:` guard: zip_period on an
\* empty list fails at json_paths[0]
Archive_Unguarded ==
    /\ mode = "run_period" /\ pc = "archive"
    /\ \/ /\ Say(<<L("Gerando ZIP do periodo...")>>)
          /\ Call([op |-> "zip_period", raised |-> TRUE])
          /\ out' = Raising(IF json_paths = <<>> THEN "IndexError" ELSE "OSError")
          /\ pc' = "finally"
          /\ UNCHANGED <<fs, loc>>
       \/ /\ json_paths # <<>>
          /\ LET z == zip_period(json_paths, ClientId) IN
             /\ Say(<<L("Gerando ZIP do periodo..."), LA("ZIP gerado: ", z.name)>>)
             /\ Call([op |-> "zip_period", raised |-> FALSE])
             /\ fs' = (z.name :> [zip |-> z.entries]) @@ fs
             /\ loc' = [zip_path |-> z.name]
             /\ pc' = IF inp.upload THEN "token" ELSE "concluded"
             /\ UNCHANGED out
    /\ UNCHANGED <<mode, inp, day, rows, json_paths, history>>

\* if json_paths: zip_period(...) ... else: logger("Nenhum arquivo JSON foi gerado.")
Archive ==
    /\ mode = "run_period" /\ pc = "archive"
    /\ IF json_paths # <<>>
       THEN \/ /\ Say(<<L("Gerando ZIP do periodo...")>>)
               /\ Call([op |-> "zip_period", raised |-> TRUE])
               /\ out' = Raising("OSError")
               /\ pc' = "finally"
               /\ UNCHANGED <<fs, loc>>
            \/ LET z == zip_period(json_paths, ClientId) IN
               /\ Say(<<L("Gerando ZIP do periodo..."), LA("ZIP gerado: ", z.name)>>)
               /\ Call([op |-> "zip_period", raised |-> FALSE])
               /\ fs' = (z.name :> [zip |-> z.entries]) @@ fs
               /\ loc' = [zip_path |-> z.name]
               /\ pc' = IF inp.upload THEN "token" ELSE "concluded"
               /\ UNCHANGED out
       ELSE /\ Say(<<L("Nenhum arquivo JSON foi gerado.")>>)
            /\ pc' = "concluded"
            /\ UNCHANGED <<calls, out, fs, loc>>
    /\ UNCHANGED <<mode, inp, day, rows, json_paths, history>>

\* tok = get_token(...); if not tok: logger("Falha ao obter token; ...")
GetToken ==
    /\ mode = "run_period" /\ pc = "token"
    /\ \E first \in TokenOutcomes, second \in TokenOutcomes :
         LET t == get_token(first, second) IN
         /\ Call([op |-> "get_token", posts |-> t.posts, tok |-> t.tok, first |-> first,
                  second |-> IF Len(t.posts) = 2 THEN second ELSE "not requested"])
         /\ IF Falsy(t.tok)
            THEN /\ Say(<<L("Autenticando na IQVIA...")>> \o t.log
                        \o <<L("Falha ao obter token; upload cancelado.")>>)
                 /\ pc' = "concluded"
                 /\ UNCHANGED loc
            ELSE /\ Say(<<L("Autenticando na IQVIA...")>> \o t.log \o <<L("Enviando ZIP...")>>)
                 /\ loc' = [zip_path |-> loc.zip_path, tok |-> t.tok]
                 /\ pc' = "upload"
    /\ UNCHANGED <<mode, inp, out, day, rows, json_paths, fs, history>>

\* resp = upload_zip(upload_url, zip_path, tok); logger("Retorno IQVIA: ...")
Upload ==
    /\ mode = "run_period" /\ pc = "upload"
    /\ \E o \in UploadOutcomes :
         IF o \in {"transport_error", "http_error"}
         THEN /\ Call([op |-> "upload_zip", file |-> loc.zip_path, raised |-> TRUE])
              /\ out' = Raising(IF o = "http_error" THEN "HTTPError" ELSE "ConnectionError")
              /\ pc' = "finally"
              /\ UNCHANGED <<log, loc>>
         ELSE /\ Call([op |-> "upload_zip", file |-> loc.zip_path, raised |-> FALSE])
              /\ Say(<<LA("Retorno IQVIA: ", UploadResp(o))>>)
              /\ loc' = [zip_path |-> loc.zip_path, resp |-> UploadResp(o)]
              /\ pc' = "history"
              /\ UNCHANGED out
    /\ UNCHANGED <<mode, inp, day, rows, json_paths, fs, history>>

\* the history object read back from the file: {} when there is no file or
\* it cannot be parsed
Loaded(h) == IF h.k = "json" THEN h.d ELSE <<>>

\* history[resp['guid']] = {...}; history_file.write_text(json.dumps(history))
save_history(h, resp, zip_name, period) ==
    HistoryOf((resp.guid :> [timestamp |-> "now", status |-> resp, file |-> zip_name,
                             period |-> period])
              @@ Loaded(h))

\* the try block that records the upload under resp['guid']
SaveHistory ==
    /\ mode = "run_period" /\ pc = "history"
    /\ IF "guid" \in DOMAIN loc.resp
       THEN \/ /\ history' = save_history(history, loc.resp, loc.zip_path,
                                           <<inp.d0, inp.d1>>)
               /\ Call([op |-> "history_file.write_text", guid |-> loc.resp.guid])
               /\ Say(<<LA("Historico de upload salvo: guid=", loc.resp.guid)>>)
            \/ /\ Say(<<L("Erro ao salvar historico: ")>>)
               /\ UNCHANGED <<history, calls>>
       ELSE UNCHANGED <<history, log, calls>>
    /\ pc' = "concluded"
    /\ UNCHANGED <<mode, inp, out, day, rows, json_paths, fs, loc>>

\* logger("Periodo concluido.")
Conclude ==
    /\ mode = "run_period" /\ pc = "concluded"
    /\ Say(<<L("Periodo concluido.")>>)
    /\ out' = [k |-> "returning"]
    /\ pc' = "finally"
    /\ UNCHANGED <<mode, inp, day, rows, json_paths, fs, calls, history, loc>>

\* the cleanup without the finally block: conn.close() as the last statement
\* of the try body, reached only when nothing was raised
Finally_OnSuccessOnly ==
    /\ mode = "run_period" /\ pc = "finally"
    /\ IF out.k = "raising"
       THEN UNCHANGED calls
       ELSE \E raised \in BOOLEAN : Call([op |-> "close", raised |-> raised])
    /\ out' = IF out.k = "raising" THEN [k |-> "raised", exc |-> out.exc]
              ELSE [k |-> "returned"]
    /\ pc' = "done"
    /\ UNCHANGED <<mode, inp, day, rows, json_paths, fs, log, history, loc>>

\* finally: try: conn.close() except Exception: pass
Finally ==
    /\ mode = "run_period" /\ pc = "finally"
    /\ \E raised \in BOOLEAN : Call([op |-> "close", raised |-> raised])
    /\ out' = IF out.k = "raising" THEN [k |-> "raised", exc |-> out.exc]
              ELSE [k |-> "returned"]
    /\ pc' = "done"
    /\ UNCHANGED <<mode, inp, day, rows, json_paths, fs, log, history, loc>>

NextRun ==
    \/ Connect \/ NextDate \/ Fetch \/ Build \/ Validate \/ SaveJson
    \/ Archive \/ GetToken \/ Upload \/ SaveHistory \/ Conclude \/ Finally

SpecRun == InitRun /\ [][NextRun]_vars

Spec == SpecRun

-----------------------------------------------------------------------------
(* The upload history store over several uploads and status checks *)

\* what iqvia_api.check_upload_status returns: the JSON answer of the
\* service, or a dict that describes the failure; it never raises
StatusOutcomes == {"json", "error"}
StatusOf(o) == IF o = "json" THEN [status |-> "processed"]
               ELSE [status |-> "error", message |-> "HTTP 500"]

\* gui.App._save_upload_history(guid, status): the history file it writes
_save_upload_history(h, guid, status) ==
    HistoryOf((guid :> [timestamp |-> "now", status |-> status]) @@ Loaded(h))

ZipName == zip_period(<<JsonName(ClientId, 1)>>, ClientId).name

InitHistory ==
    /\ mode = "history"
    /\ pc = "idle"
    /\ inp = <<>>
    /\ out = Idle
    /\ day = 0 /\ rows = <<>> /\ json_paths = <<>> /\ fs = <<>>
    /\ log = <<>> /\ calls = <<>> /\ loc = <<>>
    /\ history \in {NoHistory, BadHistory, HistoryOf("g1" :> OldEntry)}

\* a run_period whose upload_zip returned: the block that saves the history
RecordUpload ==
    /\ mode = "history" /\ Len(calls) < MaxWrites
    /\ \E o \in UploadOutcomes \ {"transport_error", "http_error"} :
         LET resp == UploadResp(o) IN
         IF "guid" \in DOMAIN resp
         THEN \/ /\ history' = save_history(history, resp, ZipName, <<1, 1>>)
                 /\ Call([op |-> "history_file.write_text", guid |-> resp.guid,
                          by |-> "run_period"])
                 /\ Say(<<LA("Historico de upload salvo: guid=", resp.guid)>>)
              \/ /\ Say(<<L("Erro ao salvar historico: ")>>)
                 /\ Call([op |-> "run_period", saved |-> FALSE])
                 /\ UNCHANGED history
         ELSE /\ Call([op |-> "run_period", saved |-> FALSE])
              /\ UNCHANGED <<history, log>>
    /\ UNCHANGED <<mode, pc, inp, out, day, rows, json_paths, fs, loc>>

\* gui.App._check_upload_status: the operator asks for the status of an
\* upload; without a token nothing is saved
CheckUploadStatus ==
    /\ mode = "history" /\ Len(calls) < MaxWrites
    /\ \E guid \in Guids :
         \/ /\ Call([op |-> "_check_upload_status", saved |-> FALSE])
            /\ UNCHANGED history
         \/ \E o \in StatusOutcomes :
               /\ Call([op |-> "history_file.write_text", guid |-> guid,
                        by |-> "_save_upload_history"])
               /\ history' = _save_upload_history(history, guid, StatusOf(o))
    /\ UNCHANGED <<mode, pc, inp, out, day, rows, json_paths, fs, log, loc>>

NextHistory == RecordUpload \/ CheckUploadStatus

SpecHistory == InitHistory /\ [][NextHistory]_vars

-----------------------------------------------------------------------------
(* Properties of run_period *)

Finished == mode = "run_period" /\ pc = "done"

Logged(line) == \E i \in 1..Len(log) : log[i] = line

Called(op) == \E i \in 1..Len(calls) : calls[i].op = op

\* every query of the run returned zero rows
AllQueriesEmpty ==
    \A i \in 1..Len(calls) :
        calls[i].op = "fetch_df" => ~calls[i].raised /\ calls[i].n = 0

\* C9: a run over a date range in which every day's queries return zero rows
\* produces no JSON file, logs the 'no file generated' warning and never
\* calls zip_period.
C9_ZeroRowsNoFiles ==
    (Finished /\ out.k = "returned" /\ AllQueriesEmpty) =>
        /\ DOMAIN fs = {}
        /\ Logged(L("Nenhum arquivo JSON foi gerado."))
        /\ ~Called("zip_period")

\* C10: a failure of the upload step is logged and does not abort the run:
\* run_period still logs 'period concluded' and returns normally, with the
\* archive written.
C10_UploadFailureNotFatal ==
    (Finished /\ \E i \in 1..Len(calls) : calls[i].op = "upload_zip" /\ calls[i].raised) =>
        /\ out.k = "returned"
        /\ Logged(L("Periodo concluido."))
        /\ \E i \in 1..Len(calls) :
             calls[i].op = "upload_zip" /\ calls[i].file \in DOMAIN fs

\* the calls of op, as positions in the record of calls
CallsOf(op) == {i \in 1..Len(calls) : calls[i].op = op}

Connected == \E i \in CallsOf("connect_oracle") : ~calls[i].raised

\* a step of the try block raised
StepRaised ==
    \E i \in 1..Len(calls) :
        /\ calls[i].op \in {"fetch_df", "build_payload", "save_json", "zip_period", "upload_zip"}
        /\ calls[i].raised

Stored(h) == IF h.k = "absent" THEN <<>> ELSE h.d

\* the key under which the last step wrote the history store
WrittenKey == calls[Len(calls)].guid

\* C12: the upload history store is append-only: a write by run_period or by
\* a status check keeps every entry stored before it under another key,
\* with the same content, also when the file it found could not be parsed.
C12_HistoryAppendOnly ==
    [][history' # history =>
          \A g \in DOMAIN Stored(history) :
              g # WrittenKey' =>
                  /\ g \in DOMAIN Stored(history')
                  /\ Stored(history')[g] = Stored(history)[g]]_vars

\* C13: every entry of the upload history store records a timestamp, the
\* reported status and the name of the archive; an entry written by
\* run_period keeps its 'file' after a later status check of the same guid.
C13_HistoryEntryFields ==
    \A g \in DOMAIN Stored(history) :
        {"timestamp", "status", "file"} \subseteq DOMAIN Stored(history)[g]

\* the steps of the date loop that were called, in order
Dated == SelectSeq(calls, LAMBDA c : "dia" \in DOMAIN c)

\* the k-th step of a run that meets no failure: the queries of a date in
\* their order, build_payload, validate_payload if validation is enabled,
\* save_json, then the same for the next date
StepsPerDate == Len(Queries) + (IF inp.validate THEN 3 ELSE 2)

ExpectedStep(k) ==
    LET pos == ((k - 1) % StepsPerDate) + 1
    IN [dia |-> inp.d0 + ((k - 1) \div StepsPerDate),
        op |-> IF pos <= Len(Queries) THEN "fetch_df"
               ELSE IF pos = Len(Queries) + 1 THEN "build_payload"
               ELSE IF pos = StepsPerDate THEN "save_json"
               ELSE "validate_payload",
        sql |-> IF pos <= Len(Queries) THEN Queries[pos] ELSE "none"]

\* C14: run_period handles the dates of daterange(d0, d1) in ascending
\* order, one at a time, each date's queries, build_payload, validation and
\* save_json complete before the first query of the next date; when a
\* query or build_payload raises, no later step of any date runs, no
\* archive is created and no upload is attempted.
C14_DatesInOrderAbortOnFailure ==
    mode = "run_period" =>
      LET dated == Dated IN
      /\ \A k \in 1..Len(dated) :
            /\ dated[k].op = ExpectedStep(k).op
            /\ dated[k].dia = ExpectedStep(k).dia
            /\ dated[k].dia <= inp.d1
            /\ dated[k].op = "fetch_df" => dated[k].sql = ExpectedStep(k).sql
            /\ ("raised" \in DOMAIN dated[k] /\ dated[k].raised) => k = Len(dated)
      /\ (\E i \in 1..Len(calls) :
              calls[i].op \in {"fetch_df", "build_payload"} /\ calls[i].raised) =>
            /\ ~Called("zip_period") /\ ~Called("get_token") /\ ~Called("upload_zip")
            /\ \A n \in DOMAIN fs : "zip" \notin DOMAIN fs[n]
      /\ Called("zip_period") =>
            Len(dated) = StepsPerDate * Len(daterange(inp.d0, inp.d1))

\* build_payload raised on the second date, after the first date was saved
C14_Witness ==
    /\ Finished
    /\ \E i \in CallsOf("build_payload") : calls[i].raised /\ calls[i].dia = inp.d0 + 1
    /\ \E i \in CallsOf("save_json") : ~calls[i].raised /\ calls[i].dia = inp.d0

\* C15: with validation enabled, the discrepancies validate_payload returns
\* for a date are logged as warnings, and whatever it returns the step
\* leaves the payload as built and goes on to save_json, which writes that
\* payload.
C15_ValidationNotFatal ==
    [][/\ (mode = "run_period" /\ pc = "validate") =>
             /\ pc' = "save" /\ UNCHANGED <<loc, out, fs, json_paths, day>>
             /\ (inp.validate /\ calls'[Len(calls')].errs > 0) =>
                    \E i \in Len(log) + 1..Len(log') :
                        log'[i] = L("Divergencias encontradas na validacao:")
       /\ (mode = "run_period" /\ pc = "save" /\ out' = out) =>
             /\ JsonName(ClientId, day) \in DOMAIN fs'
             /\ fs'[JsonName(ClientId, day)].json = loc.payload
             /\ json_paths' = Append(json_paths, JsonName(ClientId, day))]_vars

\* C16: a run over an empty date range (d0 later than d1) produces no file,
\* calls neither zip_period nor get_token nor upload_zip, logs the warning
\* and returns normally.
C16_EmptyRangeSkipsArchive ==
    (Finished /\ Connected /\ inp.d0 > inp.d1) =>
        /\ DOMAIN fs = {}
        /\ ~Called("zip_period") /\ ~Called("get_token") /\ ~Called("upload_zip")
        /\ ~Called("fetch_df")
        /\ Logged(L("Nenhum arquivo JSON foi gerado."))
        /\ Logged(L("Periodo concluido."))
        /\ out.k = "returned"

\* a finished run over an empty range that asked for the upload
C16_Witness ==
    /\ Finished /\ Connected /\ inp.d0 > inp.d1 /\ inp.upload
    /\ out.k = "returned"

\* the answers that carry a token: a JSON object with a token field, or a
\* body that is a bare three-part JWT
Yields(o) == o \in {"json_token", "jwt_body"}

\* C17: get_token makes the JSON request first and the form-encoded request
\* only when the first gave no token; it returns a token when either
\* answer carries one and None otherwise, without raising.  When it
\* returns None, run_period never calls upload_zip, does not write the
\* history store and completes normally.
C17_TokenFallbackAndSkip ==
    \A i \in CallsOf("get_token") :
        LET c == calls[i] IN
        /\ c.posts = IF Yields(c.first) THEN <<"json">> ELSE <<"json", "form">>
        /\ (c.tok # None) <=> (Yields(c.first) \/ Yields(c.second))
        /\ c.tok = None =>
              /\ ~Called("upload_zip")
              /\ ~Called("history_file.write_text")
              /\ out.k \notin {"raising", "raised"}
              /\ i < Len(calls) => (calls[i + 1].op = "close" /\ i + 1 = Len(calls))
              /\ Finished => (out.k = "returned" /\ Logged(L("Periodo concluido."))
                                /\ Logged(L("Falha ao obter token; upload cancelado.")))

\* both attempts failed, the second on a body that is almost a JWT
C17_Witness ==
    /\ Finished /\ out.k = "returned"
    /\ \E i \in CallsOf("get_token") :
          calls[i].tok = None /\ calls[i].first = "exception" /\ calls[i].second = "empty_part"

-----------------------------------------------------------------------------
(* Properties of the establishment and customer records *)

\* the digits of a source text, and the text having none
SourceDigits(src) == SelectSeq(src, IsDigit)
NoDigit(src) == SourceDigits(src) = <<>>

\* C19: in every establishment and customer record doc and ender.cep are
\* never a zero-padded placeholder: a source value without any digit
\* (empty, None, a mask, a word) gives the empty string.
C19_NoZeroPlaceholder ==
    Returned =>
        /\ \A i \in 1..Len(inp.fil) :
              /\ NoDigit(Get(inp.fil[i], "CGC", <<>>)) =>
                    out.payload.estabelecimentos[i].doc = <<>>
              /\ NoDigit(Get(inp.fil[i], "CEP", <<>>)) =>
                    out.payload.estabelecimentos[i].ender.cep = <<>>
        /\ \A i \in 1..Len(inp.cli) :
              /\ NoDigit(Get(inp.cli[i], "CGCENT", <<>>)) =>
                    out.payload.clientes[i].doc = <<>>
              /\ NoDigit(Get(inp.cli[i], "CEPENT", <<>>)) =>
                    out.payload.clientes[i].ender.cep = <<>>

\* the digits d padded with zeros on the left to width w, or cut to the
\* left-most w
Padded(d, w) == IF Len(d) >= w THEN SubSeq(d, 1, w) ELSE Zeros(w - Len(d)) \o d

\* C20 as stated: doc is a 14-character CNPJ when the source document has
\* 12 or more digits and an 11-character CPF otherwise; tipo is 2 exactly
\* when the source has 14 digits, else 1; profSaude is 0.
C20_AsStated ==
    Returned =>
        \A i \in 1..Len(inp.cli) :
            LET d == SourceDigits(Get(inp.cli[i], "CGCENT", <<>>))
                c == out.payload.clientes[i]
            IN /\ c.doc = Padded(d, IF Len(d) >= 12 THEN 14 ELSE 11)
               /\ c.tipo = (IF Len(d) = 14 THEN 2 ELSE 1)
               /\ c.profSaude = 0

\* C20: doc is the 14-character CNPJ form of the source document when it
\* has 12 or more digits; otherwise it is the 11-character CPF form, except
\* that an empty or absent source document gives an empty doc.  tipo is 2
\* exactly when the source has 14 digits, else 1; profSaude is 0.
C20_CustomerDocAndTipo ==
    Returned =>
        \A i \in 1..Len(inp.cli) :
            LET src == Get(inp.cli[i], "CGCENT", <<>>)
                d == SourceDigits(src)
                c == out.payload.clientes[i]
            IN /\ c.doc = IF Len(d) >= 12 THEN Padded(d, 14)
                          ELSE IF src = <<>> THEN <<>>
                          ELSE Padded(d, 11)
               /\ c.tipo = (IF Len(d) = 14 THEN 2 ELSE 1)
               /\ c.profSaude = 0

\* a 12-digit document formatted as CNPJ with tipo 1, next to a customer
\* without a document
C20_Witness ==
    /\ Returned /\ Len(inp.cli) = 2
    /\ Get(inp.cli[1], "CGCENT", <<>>) = Doc12
    /\ out.payload.clientes[1].doc = <<"0", "0">> \o Doc12
    /\ out.payload.clientes[1].tipo = 1
    /\ "CGCENT" \notin DOMAIN inp.cli[2]
    /\ out.payload.clientes[2].doc = <<>>

-----------------------------------------------------------------------------
(* Properties of the envelope and of the sale records *)

EntityLists == {"estabelecimentos", "clientes", "produtos", "vendas",
                "vendasDevolucoesCancelamentos", "estoque"}

Placeholders == {"profissionaisSaude", "pacientes", "fornecedores", "planosSaude",
                 "laboratoriosPBM", "compras", "comprasDevolucoesCancelamentos",
                 "prescricoes"}

\* C22: the envelope build_payload returns has 'data' equal to the
\* reference date, the six entity lists and the eight placeholder keys,
\* each placeholder an empty list, for every input, also when every
\* row-set is empty.
C22_EnvelopeKeys ==
    Returned =>
        /\ DOMAIN out.payload = {"data"} \cup EntityLists \cup Placeholders
        /\ out.payload.data = <<"2", "0", "2", "4", "-", "0", "1", "-", "0">>
                                \o StrNat(inp.data_arquivo)
        /\ \A k \in Placeholders : out.payload[k] = <<>>
        /\ \A k \in EntityLists : DOMAIN out.payload[k] = 1..Len(out.payload[k])

\* the envelope of a call whose row-sets are all empty
C22_Witness ==
    /\ Returned
    /\ \A k \in DOMAIN NoRows : inp[k] = <<>>
    /\ \A k \in EntityLists \cup Placeholders : out.payload[k] = <<>>

\* C23: build_payload does not raise for a row that lacks optional columns
\* or holds a malformed optional value (such as a non-numeric SERIE): the
\* call returns an envelope.
C23_NeverRaisesOnOptionalColumns ==
    (mode = "build_payload" /\ pc = "done") => ~out.raised

\* an amount in thousandths that has two fractional digits
TwoDecimals(x) == x % 10 = 0

\* C24: every monetary field of every emitted record is rounded to two
\* fractional digits: precoFabrica (also when the price comes from the
\* dados_entrada lookup), preco.valor.liquido and bruto, preco.desconto.valor,
\* preco.icms.aliq and valor.
C24_MoneyRoundedToCents ==
    Returned =>
        /\ \A i \in 1..Len(out.payload.produtos) :
              TwoDecimals(out.payload.produtos[i].precoFabrica)
        /\ \A i \in 1..Len(out.payload.vendas) :
              LET p == out.payload.vendas[i].preco IN
              /\ TwoDecimals(p.valor.liquido) /\ TwoDecimals(p.valor.bruto)
              /\ TwoDecimals(p.icms.aliq) /\ TwoDecimals(p.icms.valor)
              /\ "desconto" \in DOMAIN p =>
                    (TwoDecimals(p.desconto.valor) /\ TwoDecimals(p.desconto.perc))

\* a product without a catalog price whose price 5.004 came from the lookup
C24_Witness ==
    /\ Returned /\ Len(inp.produtos_unicos) >= 1
    /\ "PTABELA" \notin DOMAIN inp.produtos_unicos[1]
    /\ inp.produtos_unicos[1].CODPROD \in DOMAIN inp.dados_entrada
    /\ inp.dados_entrada[inp.produtos_unicos[1].CODPROD].preco = 5004
    /\ Len(out.payload.produtos) >= 1
    /\ out.payload.produtos[1].cod = Str(inp.produtos_unicos[1].CODPROD)
    /\ out.payload.produtos[1].precoFabrica = 5000

\* the fiscal document key of the row is given: present, not the empty
\* text, not the number zero
KeyGiven(r) ==
    /\ "CHAVENFE" \in DOMAIN r
    /\ r.CHAVENFE # <<>>
    /\ r.CHAVENFE # Num(0)

\* C25: docTipo is 2 when CHAVENFE is present and neither empty nor zero
\* and 0 otherwise; docFiscalSerie is a string and docFiscalNum an integer;
\* docTipo is 2 exactly when the emitted danfe is non-empty.
C25_DocTipoFromKey ==
    Returned =>
        \A i \in 1..Len(inp.mov) :
            LET v == out.payload.vendas[i] IN
            /\ v.docTipo = (IF KeyGiven(inp.mov[i]) THEN 2 ELSE 0)
            /\ (v.docTipo = 2) <=> (v.danfe # <<>>)
            /\ v.docFiscalSerie \in Seq({Digits[k] : k \in 1..10})
            /\ v.docFiscalSerie # <<>>
            /\ v.docFiscalNum \in Int

\* a sale with a numeric key of zero next to one with a key and a series
C25_Witness ==
    /\ Returned /\ Len(inp.mov) = 2
    /\ "CHAVENFE" \in DOMAIN inp.mov[1] /\ inp.mov[1].CHAVENFE = Num(0)
    /\ out.payload.vendas[1].docTipo = 0 /\ out.payload.vendas[1].danfe = <<>>
    /\ "CHAVENFE" \in DOMAIN inp.mov[2] /\ inp.mov[2].CHAVENFE = <<"3", "5", "2", "4">>
    /\ "SERIE" \in DOMAIN inp.mov[2]
    /\ out.payload.vendas[2].docTipo = 2
    /\ out.payload.vendas[2].docFiscalSerie = <<"1">>

-----------------------------------------------------------------------------
(* Properties of the diagnostics and of the archive of run_period *)

\* C26: every abort of run_period is preceded by a logged diagnostic: when
\* the run exits with an exception, the logger has been called with a
\* message that describes that failure.
C26_AbortIsLogged ==
    (Finished /\ out.k = "raised") =>
        \E i \in 1..Len(log) : "arg" \in DOMAIN log[i] /\ log[i].arg = out.exc

\* the date of a file name, as save_json writes it
Stamp(d) == <<"2", "0", "2", "4", "0", "1", "0">> \o StrNat(d)

\* C27: when run_period completes all dates of a non-empty range,
\* zip_period is called once, after the last date's file is saved; the
\* archive holds one entry per date, named by the date's JSON file, and is
\* named U_<CLIENTID>_<first>_<last>.zip after the earliest and the latest
\* date.
C27_OneArchivePerRun ==
    (mode = "run_period" /\ \E i \in CallsOf("zip_period") : ~calls[i].raised) =>
        LET name == <<"U", "_", "A", "B", "_">> \o Stamp(inp.d0) \o <<"_">>
                    \o Stamp(inp.d1) \o <<".", "z", "i", "p">>
        IN /\ inp.d0 <= inp.d1
           /\ Cardinality(CallsOf("zip_period")) = 1
           /\ \A i \in CallsOf("save_json"), j \in CallsOf("zip_period") : i < j
           /\ \E i \in CallsOf("save_json") : calls[i].dia = inp.d1 /\ ~calls[i].raised
           /\ {n \in DOMAIN fs : "zip" \in DOMAIN fs[n]} = {name}
           /\ Len(fs[name].zip) = inp.d1 - inp.d0 + 1
           /\ \A k \in 1..Len(fs[name].zip) :
                 /\ fs[name].zip[k] = <<"U", "_", "A", "B", "_">> \o Stamp(inp.d0 + k - 1)
                                       \o <<".", "j", "s", "o", "n">>
                 /\ fs[name].zip[k] \in DOMAIN fs

\* a finished run over more than one date with its archive
C27_Witness ==
    /\ Finished /\ out.k = "returned" /\ inp.d0 < inp.d1
    /\ \E i \in CallsOf("zip_period") : ~calls[i].raised

-----------------------------------------------------------------------------
(* Properties of the sampling of lists by validate_payload *)

\* the messages of errs whose path starts with p, in order
MessagesUnder(errs, p) ==
    SelectSeq(errs, LAMBDA e : Len(e.path) >= Len(p) /\ SubSeq(e.path, 1, Len(p)) = p)

\* C28: for a list of the spec that has a template, the messages about the
\* elements of the payload list are those of the template checked on each of
\* the first 2000 elements, under the path with the element's index, and
\* there is no message about an element at index 2000 or later
C28_OnlyFirst2000Checked ==
    (Validated /\ ~out.raised /\ inp.payload.t = "dict" /\ inp.spec.t = "dict") =>
        \A n \in 1..Len(inp.spec.keys) :
            LET k == inp.spec.keys[n]
                p == <<"$", "." \o k>>
                errs == MessagesUnder(out.errs, p)
            IN (/\ inp.spec.d[k].t = "list"
                /\ inp.spec.d[k].l # <<>> /\ inp.spec.d[k].l[1] # PyNone
                /\ InSeq(k, inp.payload.keys) /\ inp.payload.d[k].t = "list") =>
                  LET l == inp.payload.d[k].l
                  IN /\ \A i \in 0..(Len(l) - 1) :
                          MessagesUnder(errs, Append(p, IndexSeg(i))) =
                              IF i < 2000
                              THEN _validate_obj(l[i + 1], inp.spec.d[k].l[1],
                                                 Append(p, IndexSeg(i)))
                              ELSE <<>>
                     /\ \A j \in 1..Len(errs) :
                          /\ Len(errs[j].path) >= 3
                          /\ \E i \in 0..(Len(l) - 1) : errs[j].path[3] = IndexSeg(i)

\* a list of 2001 or more records with a malformed record at index 1999,
\* which is reported, and another one at index 2000, which is not
C28_Witness ==
    /\ Validated /\ ~out.raised
    /\ inp.spec = FALLBACK_SPEC /\ inp.payload.t = "dict"
    /\ InSeq("estoque", inp.payload.keys)
    /\ inp.payload.d["estoque"].t = "list"
    /\ Len(inp.payload.d["estoque"].l) > 2000
    /\ inp.payload.d["estoque"].l[2000] = EstItem(PyStr(<<"7">>))
    /\ inp.payload.d["estoque"].l[2001] = EstItem(PyStr(<<"7">>))
    /\ \E j \in 1..Len(out.errs) :
          out.errs[j].path = <<"$", ".estoque", "[1999]", ".qt">>
    /\ \A j \in 1..Len(out.errs) :
          Len(out.errs[j].path) >= 3 => out.errs[j].path[3] # "[2000]"

-----------------------------------------------------------------------------
(* Properties of the entity lists of the envelope *)

\* recs is made of the records of some of the rows, in the order of the rows
RecordsOfSomeRows(recs, rws, Rec(_)) ==
    \E f \in [1..Len(recs) -> 1..Len(rws)] :
        /\ \A j, k \in 1..Len(recs) : j < k => f[j] < f[k]
        /\ \A j \in 1..Len(recs) : recs[j] = Rec(rws[f[j]])

\* C29: 'estabelecimentos', 'clientes', 'vendas' and
\* 'vendasDevolucoesCancelamentos' hold one record per row of fil, cli, mov
\* and dev, the i-th record being that of the i-th row, whether or not the
\* product of a sale has a record; 'produtos' and 'estoque' hold the records
\* of some of their rows, in the order of the rows
C29_OneRecordPerRowInOrder ==
    Returned =>
        LET p == out.payload
        IN /\ Len(p.estabelecimentos) = Len(inp.fil)
           /\ \A i \in 1..Len(inp.fil) :
                p.estabelecimentos[i] = Estab(inp.fil[i], inp.codiqvia)
           /\ Len(p.clientes) = Len(inp.cli)
           /\ \A i \in 1..Len(inp.cli) : p.clientes[i] = Cliente(inp.cli[i])
           /\ Len(p.vendas) = Len(inp.mov)
           /\ \A i \in 1..Len(inp.mov) : p.vendas[i] = Venda(inp.mov[i])
           /\ Len(p.vendasDevolucoesCancelamentos) = Len(inp.dev)
           /\ \A i \in 1..Len(inp.dev) :
                p.vendasDevolucoesCancelamentos[i] = Devolucao(inp.dev[i])
           /\ RecordsOfSomeRows(p.produtos, inp.produtos_unicos,
                                LAMBDA r : Produto(r, inp.dados_entrada))
           /\ RecordsOfSomeRows(p.estoque, inp.est,
                                LAMBDA r : Estoque(r, inp.data_arquivo))

\* two different sales of a product whose row yields no record in 'produtos'
C29_Witness ==
    /\ Returned
    /\ Len(inp.mov) = 2 /\ inp.mov[1] # inp.mov[2]
    /\ Venda(inp.mov[1]) # Venda(inp.mov[2])
    /\ Len(inp.produtos_unicos) = 1
    /\ inp.produtos_unicos[1].CODPROD = inp.mov[1].CODPROD
    /\ inp.produtos_unicos[1].CODPROD = inp.mov[2].CODPROD
    /\ out.payload.produtos = <<>>
    /\ Len(out.payload.vendas) = 2
    /\ out.payload.vendas[1].codProd = <<"1">>

-----------------------------------------------------------------------------
(* Properties of the payload that build_payload returns, as validate_payload
   sees it *)

\* C30: the payload that build_payload returns has no discrepancy against
\* FALLBACK_SPEC: validate_payload returns the empty list on it
C30_BuiltPayloadValidates ==
    Returned =>
        LET r == validate_payload(PyEnvelope(out.payload), FALLBACK_SPEC)
        IN ~r.raised /\ r.errs = <<>>

\* a payload with an establishment, a customer, an inventory record and a
\* sale that carries a fiscal series, a document number and an access key
C30_Witness ==
    /\ Returned
    /\ out.payload.estabelecimentos # <<>> /\ out.payload.clientes # <<>>
    /\ out.payload.estoque # <<>>
    /\ out.payload.vendasDevolucoesCancelamentos # <<>>
    /\ Len(out.payload.vendas) = 2
    /\ out.payload.vendas[1].docFiscalSerie = <<"1">>
    /\ out.payload.vendas[1].docFiscalNum = 4711
    /\ out.payload.vendas[1].docTipo = 2
    /\ validate_payload(PyEnvelope(out.payload), FALLBACK_SPEC).errs = <<>>

====
